---- MODULE Spec2Model ----
(***************************************************************************)
(* Model of the NostrLinkr registry contract (Solidity): the bidirectional *)
(* mapping between Ethereum addresses and Nostr public keys, written by    *)
(* pushLinkr / pullLinkr after NIP-01 event validation.                    *)
(*                                                                         *)
(* Data representation:                                                    *)
(*   - bytes / string values are sequences of byte values 0..255;          *)
(*   - bytes32 keys are 32-byte sequences, addresses 20-byte sequences;    *)
(*   - uint256(bytes32) is the big-endian reading of the 32 bytes, so      *)
(*     unsigned comparison is lexicographic comparison of the bytes;       *)
(*   - sha256 is an ideal (collision-free) digest: the digest of a byte    *)
(*     string is the record [sha256 |-> that string];                      *)
(*   - a transaction is one atomic step (the EVM reverts every write of a  *)
(*     failing call).                                                      *)
(***************************************************************************)
EXTENDS Integers, Sequences, FiniteSets, TLC

VARIABLES addressPubkey, pubkeyAddress, now, emitted, last, call, ecdsa, ui, relay, feed, conv

vars == <<addressPubkey, pubkeyAddress, now, emitted, last, call, ecdsa, ui, relay, feed, conv>>

\* the variables of the Schnorr registry and of its callers; those of the
\* other components, conv being the frame of a running uint2str
registryVars == <<addressPubkey, pubkeyAddress, now, emitted, last, call>>
clientVars == <<ui, relay, feed, conv>>
componentVars == <<ecdsa, ui, relay, feed, conv>>

(***************************************************************************)
(* Bounds of the model                                                     *)
(***************************************************************************)
NumAccounts == 2
NumKeys == 2
MaxTicks == 1
MaxUint == 120
GenesisTime == 1700000000

(***************************************************************************)
(* Byte helpers                                                            *)
(***************************************************************************)
Rep(b, n) == [i \in 1..n |-> b]

alphabet_upperCase == <<48, 49, 50, 51, 52, 53, 54, 55, 56, 57, 65, 66, 67, 68, 69, 70>>

\* "0123456789abcdef"
alphabet == <<48, 49, 50, 51, 52, 53, 54, 55, 56, 57, 97, 98, 99, 100, 101, 102>>

bytesToHexNoPrefix(data) ==
    [k \in 1..(2 * Len(data)) |->
        IF k % 2 = 1
        THEN alphabet[(data[(k + 1) \div 2] \div 16) + 1]
        ELSE alphabet[(data[k \div 2] % 16) + 1]]

addressToStringNoPrefix(_addr) ==
    LET value == Rep(0, 12) \o _addr
    IN  [k \in 1..40 |->
            IF k % 2 = 1
            THEN alphabet[(value[((k + 1) \div 2) + 12] \div 16) + 1]
            ELSE alphabet[(value[(k \div 2) + 12] % 16) + 1]]

RECURSIVE uint2strLoop(_, _)
uint2strLoop(_i, bstr) ==
    IF _i = 0 THEN bstr
    ELSE uint2strLoop(_i \div 10, <<48 + ((_i - (_i \div 10) * 10) % 256)>> \o bstr)

uint2str(_i) == IF _i = 0 THEN <<48>> ELSE uint2strLoop(_i, <<>>)

sha256(data) == [sha256 |-> data]

\* a < b for two byte strings of the same length read as big-endian integers
RECURSIVE UintLt(_, _)
UintLt(a, b) ==
    IF a = <<>> THEN FALSE
    ELSE IF Head(a) # Head(b) THEN Head(a) < Head(b)
    ELSE UintLt(Tail(a), Tail(b))

(***************************************************************************)
(* Universe of the model: accounts, keys, call arguments                   *)
(***************************************************************************)
ZeroAddress == Rep(0, 20)
ZeroKey == Rep(0, 32)

\* account i is 0x1a1a.., 0x2b2b.., 0x3c3c..: distinct in both nibbles
Account(i) == Rep(16 * i + 9 + i, 20)
Accounts == {Account(i) : i \in 1..NumAccounts}

\* key k is 0xb1b1.., 0xb2b2..; key 0 is bytes32(0)
Key(k) == IF k = 0 THEN ZeroKey ELSE Rep(176 + k, 32)
PubKeys == {Key(k) : k \in 0..NumKeys}

LINKR_KIND == 27235
FUTURE_TOLERANCE == 10000

\* "[]"
EmptyTags == <<91, 93>>
\* "[[]]"
NestedTags == <<91, 91, 93, 93>>

\* secp256k1 group order n, big-endian
curveOrder ==
    <<255, 255, 255, 255, 255, 255, 255, 255, 255, 255, 255, 255, 255, 255, 255, 254,
      186, 174, 220, 230, 175, 72, 160, 59, 191, 210, 94, 140, 208, 54, 65, 65>>

(***************************************************************************)
(* Signature Verifier                                                      *)
(***************************************************************************)
verifySchnorrSignature_orderAccepted(pubkey, message, signature) ==
    LET r == SubSeq(signature, 1, 32)
        s == SubSeq(signature, 33, 64)
    IN  IF s = ZeroKey \/ UintLt(curveOrder, s) THEN FALSE
        ELSE IF r = ZeroKey \/ UintLt(curveOrder, r) THEN FALSE
        ELSE TRUE

verifySchnorrSignature(pubkey, message, signature) ==
    LET r == SubSeq(signature, 1, 32)
        s == SubSeq(signature, 33, 64)
    IN  IF s = ZeroKey \/ ~UintLt(s, curveOrder) THEN FALSE
        ELSE IF r = ZeroKey \/ ~UintLt(r, curveOrder) THEN FALSE
        ELSE TRUE

serializedEvent_spaced(pubkey, createdAt, kind, tags, content) ==
    <<91, 48, 44, 32, 34>> \o bytesToHexNoPrefix(pubkey) \o <<34, 44, 32>>
        \o uint2str(createdAt) \o <<44, 32>> \o uint2str(kind) \o <<44, 32>>
        \o tags \o <<44, 32, 34>> \o content \o <<34, 93>>

\* '[0,"' pubkey-hex '",' created_at ',' kind ',' tags ',"' content '"]'
serializedEvent(pubkey, createdAt, kind, tags, content) ==
    <<91, 48, 44, 34>> \o bytesToHexNoPrefix(pubkey) \o <<34, 44>>
        \o uint2str(createdAt) \o <<44>> \o uint2str(kind) \o <<44>>
        \o tags \o <<44, 34>> \o content \o <<34, 93>>

\* Outcome of a call: reverted with a reason, or returned a value
Revert(reason) == [reverted |-> TRUE, reason |-> reason, value |-> FALSE]
Return(v) == [reverted |-> FALSE, reason |-> "", value |-> v]

verifyNostrEvent_noIdCheck(eventId, pubkey, createdAt, kind, tags, content, signature) ==
    IF Len(signature) # 64 THEN Revert("Signature must be 64 bytes")
    ELSE Return(verifySchnorrSignature(pubkey, eventId, signature))

verifyNostrEvent(eventId, pubkey, createdAt, kind, tags, content, signature) ==
    IF Len(signature) # 64 THEN Revert("Signature must be 64 bytes")
    ELSE LET computedHash == sha256(serializedEvent(pubkey, createdAt, kind, tags, content))
         IN  IF computedHash # eventId THEN Revert("Event ID mismatch")
             ELSE Return(verifySchnorrSignature(pubkey, eventId, signature))

(***************************************************************************)
(* pushLinkr: the require chain, then the writes                           *)
(***************************************************************************)
Success == "success"

pushLinkrChecks_noContentCheck(sender, a, timestamp) ==
    IF Len(a.sig) # 64 THEN "Invalid signature length"
    ELSE IF a.kind # LINKR_KIND THEN "Invalid kind for Nostr Linkr"
    ELSE IF ~(a.createdAt <= timestamp + FUTURE_TOLERANCE) THEN "CreatedAt must be in the past"
    ELSE IF a.tags # EmptyTags THEN "Tags must be empty for Nostr Linkr"
    ELSE LET v == verifyNostrEvent(a.id, a.pubkey, a.createdAt, a.kind, a.tags, a.content, a.sig)
         IN  IF v.reverted THEN v.reason
             ELSE IF ~v.value THEN "Invalid Nostr signature"
             ELSE Success

pushLinkrChecks_lengthCheckedByVerifier(sender, a, timestamp) ==
    IF a.kind # LINKR_KIND THEN "Invalid kind for Nostr Linkr"
    ELSE IF ~(a.createdAt <= timestamp + FUTURE_TOLERANCE) THEN "CreatedAt must be in the past"
    ELSE IF a.tags # EmptyTags THEN "Tags must be empty for Nostr Linkr"
    ELSE IF a.content # addressToStringNoPrefix(sender)
         THEN "Content must be sender's address without 0x prefix"
    ELSE LET v == verifyNostrEvent(a.id, a.pubkey, a.createdAt, a.kind, a.tags, a.content, a.sig)
         IN  IF v.reverted THEN v.reason
             ELSE IF ~v.value THEN "Invalid Nostr signature"
             ELSE Success

pushLinkrChecks_expires(sender, a, timestamp) ==
    IF Len(a.sig) # 64 THEN "Invalid signature length"
    ELSE IF a.kind # LINKR_KIND THEN "Invalid kind for Nostr Linkr"
    ELSE IF ~(a.createdAt <= timestamp + FUTURE_TOLERANCE /\ timestamp + FUTURE_TOLERANCE <= a.createdAt)
         THEN "CreatedAt must be in the past"
    ELSE IF a.tags # EmptyTags THEN "Tags must be empty for Nostr Linkr"
    ELSE IF a.content # addressToStringNoPrefix(sender)
         THEN "Content must be sender's address without 0x prefix"
    ELSE LET v == verifyNostrEvent(a.id, a.pubkey, a.createdAt, a.kind, a.tags, a.content, a.sig)
         IN  IF v.reverted THEN v.reason
             ELSE IF ~v.value THEN "Invalid Nostr signature"
             ELSE Success

pushLinkrChecks_strictFreshness(sender, a, timestamp) ==
    IF Len(a.sig) # 64 THEN "Invalid signature length"
    ELSE IF a.kind # LINKR_KIND THEN "Invalid kind for Nostr Linkr"
    ELSE IF ~(a.createdAt < timestamp + FUTURE_TOLERANCE) THEN "CreatedAt must be in the past"
    ELSE IF a.tags # EmptyTags THEN "Tags must be empty for Nostr Linkr"
    ELSE IF a.content # addressToStringNoPrefix(sender)
         THEN "Content must be sender's address without 0x prefix"
    ELSE LET v == verifyNostrEvent(a.id, a.pubkey, a.createdAt, a.kind, a.tags, a.content, a.sig)
         IN  IF v.reverted THEN v.reason
             ELSE IF ~v.value THEN "Invalid Nostr signature"
             ELSE Success

pushLinkrChecks_noTagsCheck(sender, a, timestamp) ==
    IF Len(a.sig) # 64 THEN "Invalid signature length"
    ELSE IF a.kind # LINKR_KIND THEN "Invalid kind for Nostr Linkr"
    ELSE IF ~(a.createdAt <= timestamp + FUTURE_TOLERANCE) THEN "CreatedAt must be in the past"
    ELSE IF a.content # addressToStringNoPrefix(sender)
         THEN "Content must be sender's address without 0x prefix"
    ELSE LET v == verifyNostrEvent(a.id, a.pubkey, a.createdAt, a.kind, a.tags, a.content, a.sig)
         IN  IF v.reverted THEN v.reason
             ELSE IF ~v.value THEN "Invalid Nostr signature"
             ELSE Success

pushLinkrChecks_kindCheckedLast(sender, a, timestamp) ==
    IF Len(a.sig) # 64 THEN "Invalid signature length"
    ELSE IF ~(a.createdAt <= timestamp + FUTURE_TOLERANCE) THEN "CreatedAt must be in the past"
    ELSE IF a.tags # EmptyTags THEN "Tags must be empty for Nostr Linkr"
    ELSE IF a.content # addressToStringNoPrefix(sender)
         THEN "Content must be sender's address without 0x prefix"
    ELSE LET v == verifyNostrEvent(a.id, a.pubkey, a.createdAt, a.kind, a.tags, a.content, a.sig)
         IN  IF v.reverted THEN v.reason
             ELSE IF ~v.value THEN "Invalid Nostr signature"
             ELSE IF a.kind # LINKR_KIND THEN "Invalid kind for Nostr Linkr"
             ELSE Success

\* The result of the validation part of pushLinkr for caller `sender`, call
\* arguments `a` and block.timestamp `timestamp`: the revert reason of the
\* first failing require, or Success.
pushLinkrChecks(sender, a, timestamp) ==
    IF Len(a.sig) # 64 THEN "Invalid signature length"
    ELSE IF a.kind # LINKR_KIND THEN "Invalid kind for Nostr Linkr"
    ELSE IF ~(a.createdAt <= timestamp + FUTURE_TOLERANCE) THEN "CreatedAt must be in the past"
    ELSE IF a.tags # EmptyTags THEN "Tags must be empty for Nostr Linkr"
    ELSE IF a.content # addressToStringNoPrefix(sender)
         THEN "Content must be sender's address without 0x prefix"
    ELSE LET v == verifyNostrEvent(a.id, a.pubkey, a.createdAt, a.kind, a.tags, a.content, a.sig)
         IN  IF v.reverted THEN v.reason
             ELSE IF ~v.value THEN "Invalid Nostr signature"
             ELSE Success

pushLinkrWrites_keepsOldReverse(ap, pa, sender, pubkey) ==
    LET existingAddress == pa[pubkey]
        ap1 == IF existingAddress # ZeroAddress
               THEN [ap EXCEPT ![existingAddress] = ZeroKey] ELSE ap
    IN  [addressPubkey |-> [ap1 EXCEPT ![sender] = pubkey],
         pubkeyAddress |-> [pa EXCEPT ![pubkey] = sender],
         existingPubkey |-> ap[sender],
         existingAddress |-> existingAddress]

pushLinkrWrites_keepsOldForward(ap, pa, sender, pubkey) ==
    LET existingPubkey == ap[sender]
        pa1 == IF existingPubkey # ZeroKey
               THEN [pa EXCEPT ![existingPubkey] = ZeroAddress] ELSE pa
    IN  [addressPubkey |-> [ap EXCEPT ![sender] = pubkey],
         pubkeyAddress |-> [pa1 EXCEPT ![pubkey] = sender],
         existingPubkey |-> existingPubkey,
         existingAddress |-> pa1[pubkey]]

pushLinkrWrites_clearsEveryForward(ap, pa, sender, pubkey) ==
    LET existingPubkey == ap[sender]
        pa1 == IF existingPubkey # ZeroKey
               THEN [pa EXCEPT ![existingPubkey] = ZeroAddress] ELSE pa
        existingAddress == pa1[pubkey]
        ap1 == [x \in DOMAIN ap |-> ZeroKey]
    IN  [addressPubkey |-> [ap1 EXCEPT ![sender] = pubkey],
         pubkeyAddress |-> [pa1 EXCEPT ![pubkey] = sender],
         existingPubkey |-> existingPubkey,
         existingAddress |-> existingAddress]

\* The storage after the writes of a push that passed every check
pushLinkrWrites(ap, pa, sender, pubkey) ==
    LET existingPubkey == ap[sender]
        pa1 == IF existingPubkey # ZeroKey
               THEN [pa EXCEPT ![existingPubkey] = ZeroAddress] ELSE pa
        existingAddress == pa1[pubkey]
        ap1 == IF existingAddress # ZeroAddress
               THEN [ap EXCEPT ![existingAddress] = ZeroKey] ELSE ap
    IN  [addressPubkey |-> [ap1 EXCEPT ![sender] = pubkey],
         pubkeyAddress |-> [pa1 EXCEPT ![pubkey] = sender],
         existingPubkey |-> existingPubkey,
         existingAddress |-> existingAddress]

pullLinkrWrites_forwardOnly(ap, pa, sender) ==
    [addressPubkey |-> [ap EXCEPT ![sender] = ZeroKey],
     pubkeyAddress |-> pa]

\* The storage after the deletes of a pull by a linked sender
pullLinkrWrites(ap, pa, sender) ==
    LET pubkey == ap[sender]
    IN  [addressPubkey |-> [ap EXCEPT ![sender] = ZeroKey],
         pubkeyAddress |-> [pa EXCEPT ![pubkey] = ZeroAddress]]

LinkrPushed(addr, pubkey) == [event |-> "LinkrPushed", addr |-> addr, pubkey |-> pubkey]
LinkrPulled(addr, pubkey) == [event |-> "LinkrPulled", addr |-> addr, pubkey |-> pubkey]

(***************************************************************************)
(* Call arguments offered by callers                                       *)
(***************************************************************************)
\* r = 1, s = 2
SigInRange == Rep(0, 31) \o <<1>> \o Rep(0, 31) \o <<2>>
\* 63 bytes
SigShort == Rep(0, 31) \o <<1>> \o Rep(0, 30) \o <<2>>
\* r = 1, s = n
SigSIsOrder == Rep(0, 31) \o <<1>> \o curveOrder

\* The event with the id a NIP-01 client computes for its fields
Event(pubkey, createdAt, kind, tags, content, sig) ==
    [id |-> sha256(serializedEvent(pubkey, createdAt, kind, tags, content)),
     pubkey |-> pubkey, createdAt |-> createdAt, kind |-> kind, tags |-> tags,
     content |-> content, sig |-> sig]

\* The linking event a client builds for `account` and `pubkey`
LinkingEvent(account, pubkey) ==
    Event(pubkey, GenesisTime + FUTURE_TOLERANCE, LINKR_KIND, EmptyTags,
          addressToStringNoPrefix(account), SigInRange)

\* The linking event built for `account` and `pubkey` with one field spoiled
SpoiledEvents(account, pubkey) ==
    LET e == LinkingEvent(account, pubkey)
    IN  {[e EXCEPT !.sig = SigShort],
         [e EXCEPT !.sig = SigSIsOrder],
         [e EXCEPT !.id = sha256(<<>>)],
         Event(pubkey, e.createdAt + 1, e.kind, e.tags, e.content, e.sig),
         Event(pubkey, e.createdAt, 1, e.tags, e.content, e.sig),
         Event(pubkey, e.createdAt, e.kind, NestedTags, e.content, e.sig)}

\* What `sender` may submit: its own linking event for every key, its linking
\* event for the first key with one field spoiled, and the linking events
\* built for the other accounts
CallArgs(sender) ==
    {LinkingEvent(sender, pubkey) : pubkey \in PubKeys}
        \cup SpoiledEvents(sender, Key(1))
        \cup {LinkingEvent(other, Key(1)) : other \in Accounts \ {sender}}

NoArgs == [id |-> sha256(<<>>), pubkey |-> <<>>, createdAt |-> 0, kind |-> 0,
           tags |-> <<>>, content |-> <<>>, sig |-> <<>>]

(***************************************************************************)
(* State machine                                                           *)
(*                                                                         *)
(* addressPubkey, pubkeyAddress : the two storage mappings                 *)
(* now                          : block.timestamp                          *)
(* emitted                      : the events logged by the last transaction*)
(* last                         : the last transaction: function, outcome  *)
(*                                (Success or the revert reason) and, when *)
(*                                it succeeded, its sender, its arguments  *)
(*                                and the values it read into              *)
(*                                existingPubkey and existingAddress; a    *)
(*                                rejected pullLinkr keeps its sender too  *)
(* call                         : the call a client has prepared and not   *)
(*                                yet sent (sender and arguments); none in *)
(*                                the registry's own state machine         *)
(* ecdsa                        : the deployed ECDSA-authorised variant of *)
(*                                the registry (none in the state machines *)
(*                                of the Schnorr registry)                 *)
(* ui                           : the NostrLinkrButton component: its      *)
(*                                state and the position of the running    *)
(*                                performLink                              *)
(* relay                        : the useNostrConnection hook: its state,  *)
(*                                refs, socket and reconnect timer         *)
(***************************************************************************)
NoCall == [op |-> "none", sender |-> ZeroAddress, status |-> Success, args |-> NoArgs,
           existingPubkey |-> ZeroKey, existingAddress |-> ZeroAddress]

Reverted(op, reason) == [NoCall EXCEPT !.op = op, !.status = reason]

NoPreparedCall == [sender |-> ZeroAddress, args |-> NoArgs, origin |-> "none"]

\* the ideal digest of the ECDSA-authorised variants
keccak256(data) == [keccak256 |-> data]

\* 65 bytes that are no signature of anything
InvalidEcdsaSignature == [length |-> 65, signer |-> ZeroAddress, digest |-> keccak256(<<>>)]

\* the component as rendered first: useState(false), useState(null); no
\* performLink has run
NoResponse == [message |-> "", pubkey |-> <<>>, signature |-> <<>>, timestamp |-> 0]

\* what signEvent resolved with: nothing yet, null, or an event whose sig
\* member is present or not
NoSignedEvent == [returned |-> "nothing", hasSig |-> FALSE, sig |-> <<>>]

NoInvocation ==
    [pc |-> "idle", loading |-> FALSE, response |-> NoResponse, address |-> <<>>,
     extension |-> FALSE, pubkey |-> <<>>, createdAt |-> 0, content |-> <<>>,
     signedEvent |-> NoSignedEvent,
     submissions |-> 0, pushLinkr |-> "not called", notification |-> "none"]

\* no uint2str is running
NotConverting ==
    [pc |-> "none", n |-> 0, _i |-> 0, j |-> 0, len |-> 0, k |-> 0,
     bstr |-> <<>>, result |-> <<>>]

\* the main feed page before it is mounted, with nothing saved under
\* "nostr-following": the list in localStorage, the followed set of the page
\* and the authors map of the hook, both in insertion order
FeedNotMounted ==
    [mounted |-> FALSE,
     storage |-> [present |-> FALSE, list |-> <<>>],
     followedPubkeys |-> <<>>,
     authors |-> <<>>]

\* the hook before its mount effect has run: the initial useState and useRef
\* values; no socket, no timer, no pending promise
NotMounted ==
    [mounted |-> FALSE, connected |-> FALSE, connecting |-> FALSE, reconnectAttempts |-> 0,
     loading |-> FALSE, subscriptionActive |-> FALSE,
     socket |-> "none", isReconnect |-> FALSE, connectionTimeout |-> FALSE,
     connectPromise |-> "none", reconnectTimeout |-> FALSE,
     closeCode |-> 0, notification |-> "none", sinceOpen |-> 0]

\* no transaction yet; no ECDSA-authorised variant deployed
EcdsaNoCall == [op |-> "none", status |-> Success, sender |-> ZeroAddress,
                ethAddress |-> ZeroAddress, key |-> <<>>, signer |-> ZeroAddress,
                recovered |-> ZeroAddress]

NotDeployed ==
    [variant |-> "none", trustedSigner |-> ZeroAddress, owner |-> ZeroAddress,
     nostrLinks |-> [a \in Accounts |-> <<>>],
     addressPubkey |-> [a \in Accounts |-> ZeroKey],
     pubkeyAddress |-> [p \in PubKeys |-> ZeroAddress],
     emitted |-> <<>>, last |-> EcdsaNoCall]

Init ==
    /\ addressPubkey = [a \in Accounts |-> ZeroKey]
    /\ pubkeyAddress = [p \in PubKeys |-> ZeroAddress]
    /\ now = GenesisTime
    /\ emitted = <<>>
    /\ last = NoCall
    /\ call = NoPreparedCall
    /\ ecdsa = NotDeployed
    /\ ui = NoInvocation
    /\ relay = NotMounted
    /\ feed = FeedNotMounted
    /\ conv = NotConverting

PushLinkrCall_writesBeforeVerify(sender, a, status) ==
    LET w == pushLinkrWrites(addressPubkey, pubkeyAddress, sender, a.pubkey)
    IN  IF status \in {Success, "Invalid Nostr signature"}
        THEN /\ addressPubkey' = w.addressPubkey
             /\ pubkeyAddress' = w.pubkeyAddress
             /\ emitted' = IF status = Success THEN <<LinkrPushed(sender, a.pubkey)>> ELSE <<>>
             /\ last' = IF status = Success
                        THEN [op |-> "pushLinkr", sender |-> sender, status |-> Success,
                              args |-> a, existingPubkey |-> w.existingPubkey,
                              existingAddress |-> w.existingAddress]
                        ELSE Reverted("pushLinkr", status)
             /\ UNCHANGED now
        ELSE /\ emitted' = <<>>
             /\ last' = Reverted("pushLinkr", status)
             /\ UNCHANGED <<addressPubkey, pubkeyAddress, now>>

PushLinkrCall_logsOnRevert(sender, a, status) ==
    LET w == pushLinkrWrites(addressPubkey, pubkeyAddress, sender, a.pubkey)
    IN  IF status = Success
        THEN /\ addressPubkey' = w.addressPubkey
             /\ pubkeyAddress' = w.pubkeyAddress
             /\ emitted' = <<LinkrPushed(sender, a.pubkey)>>
             /\ last' = [op |-> "pushLinkr", sender |-> sender, status |-> Success,
                         args |-> a, existingPubkey |-> w.existingPubkey,
                         existingAddress |-> w.existingAddress]
             /\ UNCHANGED now
        ELSE /\ emitted' = <<LinkrPushed(sender, a.pubkey)>>
             /\ last' = Reverted("pushLinkr", status)
             /\ UNCHANGED <<addressPubkey, pubkeyAddress, now>>

\* One pushLinkr transaction from msg.sender = sender whose require chain
\* ends with `status`
PushLinkrCall(sender, a, status) ==
    LET w == pushLinkrWrites(addressPubkey, pubkeyAddress, sender, a.pubkey)
    IN  IF status = Success
        THEN /\ addressPubkey' = w.addressPubkey
             /\ pubkeyAddress' = w.pubkeyAddress
             /\ emitted' = <<LinkrPushed(sender, a.pubkey)>>
             /\ last' = [op |-> "pushLinkr", sender |-> sender, status |-> Success,
                         args |-> a, existingPubkey |-> w.existingPubkey,
                         existingAddress |-> w.existingAddress]
             /\ UNCHANGED now
        ELSE /\ emitted' = <<>>
             /\ last' = Reverted("pushLinkr", status)
             /\ UNCHANGED <<addressPubkey, pubkeyAddress, now>>

\* every (msg.sender, call arguments) pair the model submits
PushInputs == UNION {{<<sender, a>> : a \in CallArgs(sender)} : sender \in Accounts}

BlockTimes == GenesisTime..(GenesisTime + MaxTicks)

\* the require chain of pushLinkr evaluated for every input and block time
PushOutcomes ==
    {<<t, in[1], in[2], pushLinkrChecks(in[1], in[2], t)>> : in \in PushInputs, t \in BlockTimes}

PushLinkr ==
    /\ \E o \in PushOutcomes : o[1] = now /\ PushLinkrCall(o[2], o[3], o[4])
    /\ UNCHANGED <<call, componentVars>>

PullLinkrCall_noRequire(sender) ==
    LET pubkey == addressPubkey[sender]
        w == pullLinkrWrites(addressPubkey, pubkeyAddress, sender)
    IN  /\ addressPubkey' = w.addressPubkey
        /\ pubkeyAddress' = w.pubkeyAddress
        /\ emitted' = <<LinkrPulled(sender, pubkey)>>
        /\ last' = [op |-> "pullLinkr", sender |-> sender, status |-> Success,
                    args |-> [NoArgs EXCEPT !.pubkey = pubkey],
                    existingPubkey |-> pubkey, existingAddress |-> ZeroAddress]
        /\ UNCHANGED now

\* One pullLinkr transaction from msg.sender = sender
PullLinkrCall(sender) ==
    LET pubkey == addressPubkey[sender]
        w == pullLinkrWrites(addressPubkey, pubkeyAddress, sender)
    IN  IF pubkey # ZeroKey
        THEN /\ addressPubkey' = w.addressPubkey
             /\ pubkeyAddress' = w.pubkeyAddress
             /\ emitted' = <<LinkrPulled(sender, pubkey)>>
             /\ last' = [op |-> "pullLinkr", sender |-> sender, status |-> Success,
                         args |-> [NoArgs EXCEPT !.pubkey = pubkey],
                         existingPubkey |-> pubkey, existingAddress |-> ZeroAddress]
             /\ UNCHANGED now
        ELSE /\ emitted' = <<>>
             /\ last' = [Reverted("pullLinkr", "No link found for this address")
                            EXCEPT !.sender = sender]
             /\ UNCHANGED <<addressPubkey, pubkeyAddress, now>>

PullLinkr ==
    /\ \E sender \in Accounts : PullLinkrCall(sender)
    /\ UNCHANGED <<call, componentVars>>

\* block.timestamp advances between transactions
Tick ==
    /\ now < GenesisTime + MaxTicks
    /\ now' = now + 1
    /\ UNCHANGED <<addressPubkey, pubkeyAddress, emitted, last, call, componentVars>>

Next == PushLinkr \/ PullLinkr \/ Tick

Spec == Init /\ [][Next]_vars

TypeOK ==
    /\ addressPubkey \in [Accounts -> PubKeys]
    /\ pubkeyAddress \in [PubKeys -> Accounts \cup {ZeroAddress}]
    /\ now \in BlockTimes
    /\ Len(emitted) <= 1

(***************************************************************************)
(* Client: performLink of the NostrLinkrButton component                   *)
(*                                                                         *)
(* Texts are strings of character codes.  The wallet gives the account as  *)
(* "0x" and 40 hex characters in mixed case, the signing extension gives   *)
(* the key as 64 lowercase hex characters.                                 *)
(***************************************************************************)
\* value of a lowercase hex digit, 16 for any other character
HexDigit(c) ==
    IF c \in 48..57 THEN c - 48 ELSE IF c \in 97..102 THEN c - 87 ELSE 16

\* one hex character of the client's texts; letters in upper case on demand
HexChar(n, upper) == IF n < 10 THEN 48 + n ELSE IF upper THEN 55 + n ELSE 87 + n

HexText(data, upper) ==
    [k \in 1..(2 * Len(data)) |->
        LET byte == data[(k + 1) \div 2]
        IN  HexChar(IF k % 2 = 1 THEN byte \div 16 ELSE byte % 16, upper)]

\* the `address` property: "0x" and the hex characters, letters all in lower
\* or all in upper case (the two extremes of the checksum casing)
AddressTexts(account) == {<<48, 120>> \o HexText(account, upper) : upper \in BOOLEAN}

\* window.nostr.getPublicKey()
ExtensionPubkeyText(pubkey) == HexText(pubkey, FALSE)

\* String.prototype.toLowerCase on a text of ASCII characters
toLowerCase(text) == [k \in 1..Len(text) |-> IF text[k] \in 65..90 THEN text[k] + 32 ELSE text[k]]

\* text.replace("0x", ""): the first occurrence of "0x" is removed
RECURSIVE replace0x(_)
replace0x(text) ==
    IF Len(text) < 2 THEN text
    ELSE IF SubSeq(text, 1, 2) = <<48, 120>> THEN SubSeq(text, 3, Len(text))
    ELSE <<Head(text)>> \o replace0x(Tail(text))

\* JSON.stringify of a non-negative integer
RECURSIVE JsonNumber(_)
JsonNumber(n) == IF n < 10 THEN <<48 + n>> ELSE JsonNumber(n \div 10) \o <<48 + (n % 10)>>

\* JSON.stringify of a text without characters that need escaping
JsonString(text) == <<34>> \o text \o <<34>>

\* JSON.stringify of an array whose elements are already rendered
RECURSIVE JsonArray(_)
JsonArray(elements) ==
    IF elements = <<>> THEN <<91, 93>>
    ELSE IF Len(elements) = 1 THEN <<91>> \o elements[1] \o <<93>>
    ELSE LET rest == JsonArray(Tail(elements))
         IN  <<91>> \o elements[1] \o <<44>> \o SubSeq(rest, 2, Len(rest))

\* getEventHash of nostr-tools: SHA-256 of
\* JSON.stringify([0, pubkey, created_at, kind, tags, content]); tags = []
getEventHash(pubkeyText, created_at, kind, content) ==
    sha256(JsonArray(<<JsonNumber(0), JsonString(pubkeyText), JsonNumber(created_at),
                       JsonNumber(kind), JsonArray(<<>>), JsonString(content)>>))

\* the bytes that a text of lowercase hex characters denotes
hexToBytes(text) ==
    [k \in 1..(Len(text) \div 2) |-> 16 * HexDigit(text[2 * k - 1]) + HexDigit(text[2 * k])]

\* The arguments of the pushLinkr call of performLink for the connected
\* account text, the extension's key text and signature, at client time
\* `clock`
performLink(addressText, pubkeyText, clock, sig) ==
    LET createdAt == clock
        kind == 27235
        content == replace0x(toLowerCase(addressText))
    IN  [id |-> getEventHash(pubkeyText, createdAt, kind, content),
         pubkey |-> hexToBytes(pubkeyText),
         createdAt |-> createdAt,
         kind |-> kind,
         tags |-> JsonArray(<<>>),
         content |-> content,
         sig |-> sig]

\* the calls performLink makes from the connected account, for every account,
\* key and client time
ClientCalls ==
    UNION {{[sender |-> account,
             args |-> performLink(addressText, ExtensionPubkeyText(pubkey), clock, SigInRange),
             origin |-> "performLink"] :
                addressText \in AddressTexts(account), pubkey \in PubKeys,
                clock \in BlockTimes} : account \in Accounts}

(***************************************************************************)
(* Validation of single calls                                              *)
(*                                                                         *)
(* A second state machine in which one prepared call, drawn from every     *)
(* combination of field values below, is sent to pushLinkr or passed to    *)
(* the public function verifyNostrEvent.  A relay or client may change     *)
(* created_at or content of an event that verifyNostrEvent accepted and    *)
(* present it again under the id it had.                                   *)
(***************************************************************************)
\* scalars at the edges of the range check: 0, 1, n - 1, n, 2^256 - 1
ScalarOne == Rep(0, 31) \o <<1>>
ScalarOrderMinusOne == [curveOrder EXCEPT ![32] = 64]
ScalarMax == Rep(255, 32)
InRangeScalars == {ScalarOne, ScalarOrderMinusOne}
OutOfRangeScalars == {ZeroKey, curveOrder, ScalarMax}

\* 65 bytes
SigLong == SigInRange \o <<0>>
\* r and s from the edge scalars, at most one of them away from 1
EdgeSignatures ==
    {r \o ScalarOne : r \in InRangeScalars \cup OutOfRangeScalars}
        \cup {ScalarOne \o s : s \in InRangeScalars \cup OutOfRangeScalars}
        \cup {ScalarOrderMinusOne \o ScalarOrderMinusOne}

\* "[ ]"
SpacedTags == <<91, 32, 93>>
TagsChoices == {EmptyTags, NestedTags, SpacedTags}

\* 0, and the values around block.timestamp + FUTURE_TOLERANCE of every block
CreatedAtChoices ==
    {0} \cup ((GenesisTime + FUTURE_TOLERANCE)..(GenesisTime + MaxTicks + FUTURE_TOLERANCE + 1))

ContentChoices == {addressToStringNoPrefix(a) : a \in Accounts} \cup {<<>>}

DirectCall(sender, a) == [sender |-> sender, args |-> a, origin |-> "direct"]

\* every combination of the validated fields, with the id of the fields or
\* another id, and a signature of the right or of a wrong length
FieldCalls ==
    {DirectCall(sender,
        [Event(pubkey, createdAt, kind, tags, content, sig)
            EXCEPT !.id = IF matching THEN @ ELSE sha256(<<>>)]) :
        sender \in Accounts, pubkey \in PubKeys, createdAt \in CreatedAtChoices,
        kind \in {LINKR_KIND, 1}, tags \in TagsChoices, content \in ContentChoices,
        matching \in BOOLEAN, sig \in {SigInRange, SigShort}}

\* the linking event, or the same event with kind 1, under every signature
SignatureCalls ==
    {DirectCall(sender,
        Event(pubkey, GenesisTime + FUTURE_TOLERANCE, kind, EmptyTags,
              addressToStringNoPrefix(sender), sig)) :
        sender \in Accounts, pubkey \in PubKeys, kind \in {LINKR_KIND, 1},
        sig \in EdgeSignatures \cup {SigLong, SigShort}}

PreparedCalls == FieldCalls \cup SignatureCalls \cup ClientCalls

\* the registry is empty, or holds the link of the first account and key
InitVerify ==
    /\ \E linked \in BOOLEAN :
        /\ addressPubkey = [a \in Accounts |->
                                IF linked /\ a = Account(1) THEN Key(1) ELSE ZeroKey]
        /\ pubkeyAddress = [p \in PubKeys |->
                                IF linked /\ p = Key(1) THEN Account(1) ELSE ZeroAddress]
    /\ now \in BlockTimes
    /\ emitted = <<>>
    /\ last = NoCall
    /\ call \in PreparedCalls
    /\ ecdsa = NotDeployed
    /\ ui = NoInvocation
    /\ relay = NotMounted
    /\ feed = FeedNotMounted
    /\ conv = NotConverting

\* the prepared call is sent as a pushLinkr transaction
SendPush ==
    /\ last.op = "none"
    /\ PushLinkrCall(call.sender, call.args, pushLinkrChecks(call.sender, call.args, now))
    /\ UNCHANGED <<call, componentVars>>

\* the outcome of verifyNostrEvent as text: the revert reason, "true" or "false"
VerifyOutcome(a) ==
    LET v == verifyNostrEvent(a.id, a.pubkey, a.createdAt, a.kind, a.tags, a.content, a.sig)
    IN  IF v.reverted THEN v.reason ELSE IF v.value THEN "true" ELSE "false"

\* verifyNostrEvent is called with the arguments of the prepared call (a pure
\* function: no storage is written, nothing is logged)
CallVerifyNostrEvent ==
    /\ last.op = "none"
    /\ last' = [NoCall EXCEPT !.op = "verifyNostrEvent", !.sender = call.sender,
                              !.status = VerifyOutcome(call.args)]
    /\ UNCHANGED <<addressPubkey, pubkeyAddress, now, emitted, call, componentVars>>

\* created_at or content of an event that verifyNostrEvent accepted is
\* changed; the id and every other field are kept
ChangeField ==
    /\ call.origin = "direct"
    /\ last.op = "verifyNostrEvent"
    /\ last.status = "true"
    /\ \/ \E createdAt \in CreatedAtChoices \ {call.args.createdAt} :
            call' = [call EXCEPT !.args.createdAt = createdAt, !.origin = "changed"]
       \/ \E content \in ContentChoices \ {call.args.content} :
            call' = [call EXCEPT !.args.content = content, !.origin = "changed"]
    /\ last' = NoCall
    /\ UNCHANGED <<addressPubkey, pubkeyAddress, now, emitted, componentVars>>

NextVerify == SendPush \/ CallVerifyNostrEvent \/ ChangeField

SpecVerify == InitVerify /\ [][NextVerify]_vars

(***************************************************************************)
(* Registry variants whose write is authorised by an ECDSA signature       *)
(*                                                                         *)
(* linkNostr (the caller signs), linkNostrAttested (trustedSigner signs)   *)
(* and the owner-attested pushLinkr (the owner signs a JSON message).      *)
(* One of the three contracts is deployed; `ecdsa` holds its storage, the  *)
(* events of its last transaction and that transaction.                    *)
(*                                                                         *)
(* keccak256 is an ideal digest.  An ECDSA signature is the triple of its  *)
(* length, the account whose key made it and the digest it was made over:  *)
(* ecrecover gives that account for that digest, an unrelated address for  *)
(* any other digest, and address(0) for values that are no signature.      *)
(***************************************************************************)
\* keccak256 of the 28 bytes 0x19 "Ethereum Signed Message:" 0x0a "32"
\* followed by the hash
getEthSignedMessageHash(_messageHash) ==
    keccak256(<<<<25, 69, 116, 104, 101, 114, 101, 117, 109, 32, 83, 105, 103, 110, 101,
                  100, 32, 77, 101, 115, 115, 97, 103, 101, 58, 10, 51, 50>>,
                _messageHash>>)

char(b) == IF b < 10 THEN b + 48 ELSE b + 87

toAsciiString(x) ==
    [k \in 1..40 |->
        LET b == x[(k + 1) \div 2]
            hi == b \div 16
            lo == b - 16 * hi
        IN  IF k % 2 = 1 THEN char(hi) ELSE char(lo)]

EcdsaSign(signer, digest) == [length |-> 65, signer |-> signer, digest |-> digest]
\* 64 bytes
ShortEcdsaSignature == [length |-> 64, signer |-> ZeroAddress, digest |-> keccak256(<<>>)]

\* the address ecrecover returns for a signature made over another digest
StrayAddress == Rep(238, 20)

ecrecover(digest, sig) ==
    IF sig.signer = ZeroAddress THEN ZeroAddress
    ELSE IF sig.digest = digest THEN sig.signer
    ELSE StrayAddress

\* splitSignature requires 65 bytes, then ecrecover
recoverSigner(_ethSignedMessageHash, _signature) ==
    IF _signature.length # 65 THEN Revert("Invalid signature length")
    ELSE [reverted |-> FALSE, reason |-> "",
          value |-> ecrecover(_ethSignedMessageHash, _signature)]

\* "Link Ethereum " <address> " with Nostr " <nostrPubKey>
linkNostrDigest(sender, nostrPubKey) ==
    getEthSignedMessageHash(keccak256(
        <<76, 105, 110, 107, 32, 69, 116, 104, 101, 114, 101, 117, 109, 32>>
            \o toAsciiString(sender)
            \o <<32, 119, 105, 116, 104, 32, 78, 111, 115, 116, 114, 32>>
            \o nostrPubKey))

linkNostr_noRequire(sender, nostrPubKey, signature) ==
    LET rec == recoverSigner(linkNostrDigest(sender, nostrPubKey), signature)
    IN  IF rec.reverted THEN rec.reason
        ELSE Success

\* The result of linkNostr called by `sender`: the revert reason or Success
linkNostr(sender, nostrPubKey, signature) ==
    LET rec == recoverSigner(linkNostrDigest(sender, nostrPubKey), signature)
    IN  IF rec.reverted THEN rec.reason
        ELSE IF rec.value # sender THEN "Invalid signature"
        ELSE Success

\* "Link attest: ethAddress=" <address> " nostrPubKey=" <nostrPubKey>
linkNostrAttestedDigest(ethAddress, nostrPubKey) ==
    getEthSignedMessageHash(keccak256(
        <<76, 105, 110, 107, 32, 97, 116, 116, 101, 115, 116, 58, 32, 101, 116, 104,
          65, 100, 100, 114, 101, 115, 115, 61>>
            \o toAsciiString(ethAddress)
            \o <<32, 110, 111, 115, 116, 114, 80, 117, 98, 75, 101, 121, 61>>
            \o nostrPubKey))

\* The result of linkNostrAttested under `trustedSigner`
linkNostrAttested(trustedSigner, ethAddress, nostrPubKey, serverSignature) ==
    LET rec == recoverSigner(linkNostrAttestedDigest(ethAddress, nostrPubKey), serverSignature)
    IN  IF rec.reverted THEN rec.reason
        ELSE IF rec.value # trustedSigner THEN "Invalid server signature"
        ELSE Success

\* ECDSA.recover of the library: a wrong length and a recovered address(0)
\* revert
ECDSA_recover(hash, signature) ==
    IF signature.length # 65 THEN Revert("ECDSAInvalidSignatureLength")
    ELSE IF ecrecover(hash, signature) = ZeroAddress THEN Revert("ECDSAInvalidSignature")
    ELSE [reverted |-> FALSE, reason |-> "", value |-> ecrecover(hash, signature)]

Owner_messageDigest(message) == getEthSignedMessageHash(keccak256(message))

\* position (from 0) of the first occurrence of needle at or after start;
\* the subtraction of the lengths is checked
_indexOfFrom(haystack, needle, start) ==
    IF Len(haystack) < Len(needle) THEN Revert("Panic(0x11)")
    ELSE LET found == {i \in start..(Len(haystack) - Len(needle)) :
                            SubSeq(haystack, i + 1, i + Len(needle)) = needle}
         IN  IF found = {} THEN Revert("Key not found")
             ELSE [reverted |-> FALSE, reason |-> "",
                   value |-> CHOOSE i \in found : \A j \in found : i <= j]

_slice(data, start, end) ==
    IF ~(end >= start /\ end <= Len(data)) THEN Revert("Invalid slice range")
    ELSE [reverted |-> FALSE, reason |-> "", value |-> SubSeq(data, start + 1, end)]

\* the text between `key` and the next double quote
Owner_extract(b, key) ==
    LET at == _indexOfFrom(b, key, 0)
    IN  IF at.reverted THEN at
        ELSE LET from == at.value + Len(key)
                 to == _indexOfFrom(b, <<34>>, from)
             IN  IF to.reverted THEN to ELSE _slice(b, from, to.value)

\* value of a hex digit in either case, 16 for any other character
Owner_digit(c) ==
    IF c >= 48 /\ c <= 57 THEN c - 48
    ELSE IF c >= 65 /\ c <= 70 THEN c - 55
    ELSE IF c >= 97 /\ c <= 102 THEN c - 87
    ELSE 16

_parseAddress(addrStr) ==
    IF Len(addrStr) # 42 THEN Revert("Invalid address length")
    ELSE IF ~(addrStr[1] = 48 /\ addrStr[2] = 120) THEN Revert("Address must start with 0x")
    ELSE IF \E i \in 3..42 : Owner_digit(addrStr[i]) = 16
         THEN Revert("Invalid hex character in address")
    ELSE [reverted |-> FALSE, reason |-> "",
          value |-> [k \in 1..20 |->
                        16 * Owner_digit(addrStr[2 * k + 1]) + Owner_digit(addrStr[2 * k + 2])]]

_parseBytes32(hexStr) ==
    IF Len(hexStr) # 64 THEN Revert("Invalid bytes32 hex length")
    ELSE IF \E i \in 1..64 : Owner_digit(hexStr[i]) = 16
         THEN Revert("Invalid hex character in pubkey")
    ELSE [reverted |-> FALSE, reason |-> "",
          value |-> [k \in 1..32 |->
                        16 * Owner_digit(hexStr[2 * k - 1]) + Owner_digit(hexStr[2 * k])]]

\* _extractContentAndPubkey, _parseAddress, _parseBytes32 in the order of the
\* code: the first revert, or the pair (addr, pubkey)
Owner_parse(message) ==
    IF message = <<>> THEN Revert("Empty JSON input")
    ELSE LET contentStr == Owner_extract(message, <<34, 99, 111, 110, 116, 101, 110, 116, 34, 58, 34>>)
             pubkeyStr == Owner_extract(message, <<34, 112, 117, 98, 107, 101, 121, 34, 58, 34>>)
         IN  IF contentStr.reverted THEN contentStr
             ELSE IF pubkeyStr.reverted THEN pubkeyStr
             ELSE LET addr == _parseAddress(contentStr.value)
                      pubkey == _parseBytes32(pubkeyStr.value)
                  IN  IF addr.reverted THEN addr
                      ELSE IF pubkey.reverted THEN pubkey
                      ELSE [reverted |-> FALSE, reason |-> "",
                            value |-> [addr |-> addr.value, pubkey |-> pubkey.value]]

Owner_pushLinkr_overwrites(owner, ap, pa, signer, recovered, parsed) ==
    IF recovered.reverted THEN recovered.reason
    ELSE IF recovered.value # signer THEN "Invalid signature"
    ELSE IF signer # owner THEN "Signer is not the contract owner"
    ELSE IF parsed.reverted THEN parsed.reason
    ELSE Success

Owner_pushLinkr_anySigner(owner, ap, pa, signer, recovered, parsed) ==
    IF recovered.reverted THEN recovered.reason
    ELSE IF signer # owner THEN "Signer is not the contract owner"
    ELSE IF parsed.reverted THEN parsed.reason
    ELSE IF ap[parsed.value.addr] # ZeroKey THEN "Linkr already exists"
    ELSE IF pa[parsed.value.pubkey] # ZeroAddress THEN "Linkr already exists"
    ELSE Success

\* The result of the owner-attested pushLinkr: `recovered` is the outcome of
\* ECDSA.recover for its message and signature, `parsed` of the parsing of
\* its message
Owner_pushLinkr(owner, ap, pa, signer, recovered, parsed) ==
    IF recovered.reverted THEN recovered.reason
    ELSE IF recovered.value # signer THEN "Invalid signature"
    ELSE IF signer # owner THEN "Signer is not the contract owner"
    ELSE IF parsed.reverted THEN parsed.reason
    ELSE IF ap[parsed.value.addr] # ZeroKey THEN "Linkr already exists"
    ELSE IF pa[parsed.value.pubkey] # ZeroAddress THEN "Linkr already exists"
    ELSE Success

LinkCreated(ethAddress, nostrPubKey) ==
    [event |-> "LinkCreated", ethAddress |-> ethAddress, nostrPubKey |-> nostrPubKey]
Owner_LinkrPushed(message, signature, signer) ==
    [event |-> "LinkrPushed", message |-> message, signature |-> signature, signer |-> signer]

(***************************************************************************)
(* Calls offered to the three contracts                                    *)
(***************************************************************************)
\* the Nostr keys as the texts passed to linkNostr and linkNostrAttested
KeyTexts == {ExtensionPubkeyText(p) : p \in PubKeys \ {ZeroKey}}

MalformedSignatures == {InvalidEcdsaSignature, ShortEcdsaSignature}

\* the outcome of a recovery as kept with a call: address(0) stands for the
\* address of a recovery that reverted
Recovery(rec) ==
    [reverted |-> rec.reverted, reason |-> rec.reason,
     value |-> IF rec.reverted THEN ZeroAddress ELSE rec.value]

\* the key text the failing signatures are tried with
ProbeKeyText == ExtensionPubkeyText(Key(1))

\* the signatures tried for a call whose digest is `digest`: made by each of
\* `signers` over it and, for a probed call, made by any account over it,
\* made by `signers` over each digest of `others`, or malformed
SignaturesFor(digest, signers, others, probed) ==
    {EcdsaSign(s, digest) : s \in IF probed THEN Accounts ELSE signers}
        \cup (IF probed
              THEN {EcdsaSign(s, d) : s \in signers, d \in others} \cup MalformedSignatures
              ELSE {})

\* every caller and key with the caller's signature; with the probe key also
\* the signatures of the other accounts, for the digest of another account
\* and for the digest of another key; recovered is the outcome of
\* recoverSigner
LinkNostrCalls ==
    UNION {{[sender |-> sender, nostrPubKey |-> k,
             status |-> linkNostr(sender, k, sig),
             recovered |-> Recovery(recoverSigner(linkNostrDigest(sender, k), sig))] :
                sig \in SignaturesFor(linkNostrDigest(sender, k), {sender},
                        {linkNostrDigest(x, k) : x \in Accounts \ {sender}}
                            \cup {linkNostrDigest(sender, k2) : k2 \in KeyTexts \ {k}},
                        k = ProbeKeyText)} :
           sender \in Accounts, k \in KeyTexts}

\* the same for linkNostrAttested, signed by any account as the server;
\* recovered is compared with trustedSigner when the call is made
LinkNostrAttestedCalls ==
    UNION {{[ethAddress |-> a, nostrPubKey |-> k,
             recovered |-> Recovery(recoverSigner(linkNostrAttestedDigest(a, k), sig))] :
                sig \in SignaturesFor(linkNostrAttestedDigest(a, k), Accounts,
                        {linkNostrAttestedDigest(x, k) : x \in Accounts \ {a}}
                            \cup {linkNostrAttestedDigest(a, k2) : k2 \in KeyTexts \ {k}},
                        k = ProbeKeyText /\ a = Account(1))} :
           a \in Accounts, k \in KeyTexts}

\* {"content":"0x<address>","pubkey":"<key>"}
Owner_message(addressText, pubkeyText) ==
    <<123, 34, 99, 111, 110, 116, 101, 110, 116, 34, 58, 34>> \o addressText
        \o <<34, 44, 34, 112, 117, 98, 107, 101, 121, 34, 58, 34>> \o pubkeyText \o <<34, 125>>

\* a message for every account and key, the address text in lower case, one
\* in upper case and one without the pubkey member
Owner_messages ==
    {Owner_message(<<48, 120>> \o HexText(a, FALSE), ExtensionPubkeyText(p)) :
        a \in Accounts, p \in PubKeys}
        \cup {Owner_message(<<48, 120>> \o HexText(Account(1), TRUE), ExtensionPubkeyText(Key(1)))}
        \cup {<<123, 34, 99, 111, 110, 116, 101, 110, 116, 34, 58, 34>>
                \o <<48, 120>> \o HexText(Account(1), FALSE) \o <<34, 125>>}

\* every message with the signature of its declared signer; for the message
\* of the first account and key also the signatures of the other accounts,
\* for the digest of the empty text, and the malformed ones
Owner_pushCalls ==
    UNION {{[message |-> m, signature |-> sig, signer |-> signer,
             recovered |-> Recovery(ECDSA_recover(Owner_messageDigest(m), sig)),
             parsed |-> Owner_parse(m)] :
                sig \in SignaturesFor(Owner_messageDigest(m), {signer},
                            {Owner_messageDigest(<<>>)},
                            m = Owner_message(<<48, 120>> \o HexText(Account(1), FALSE),
                                              ProbeKeyText))} :
           m \in Owner_messages, signer \in Accounts}

(***************************************************************************)
(* State machine of the deployed ECDSA variant                             *)
(***************************************************************************)
\* the transaction record: function, outcome, caller, the account and the
\* key the call is about, the declared signer and the recovered address
\* (address(0) when the recovery reverted)
EcdsaCalled(op, status, sender, ethAddress, key, signer, rec) ==
    [op |-> op, status |-> status, sender |-> sender, ethAddress |-> ethAddress,
     key |-> key, signer |-> signer,
     recovered |-> rec.value]

\* constructor: the deployer becomes owner; trustedSigner is any address given
InitEcdsa ==
    /\ addressPubkey = [a \in Accounts |-> ZeroKey]
    /\ pubkeyAddress = [p \in PubKeys |-> ZeroAddress]
    /\ now = GenesisTime
    /\ emitted = <<>>
    /\ last = NoCall
    /\ call = NoPreparedCall
    /\ \E variant \in {"linkNostr", "linkNostrAttested", "ownerAttested"} :
       \E trustedSigner \in Accounts \cup {ZeroAddress} :
       \E owner \in Accounts :
            ecdsa = [NotDeployed EXCEPT
                        !.variant = variant,
                        !.trustedSigner = IF variant = "linkNostrAttested"
                                          THEN trustedSigner ELSE ZeroAddress,
                        !.owner = IF variant = "ownerAttested" THEN owner ELSE ZeroAddress]
    /\ ui = NoInvocation
    /\ relay = NotMounted
    /\ feed = FeedNotMounted
    /\ conv = NotConverting

LinkNostr ==
    /\ ecdsa.variant = "linkNostr"
    /\ \E c \in LinkNostrCalls :
        LET called == EcdsaCalled("linkNostr", c.status, c.sender, c.sender, c.nostrPubKey,
                                  ZeroAddress, c.recovered)
        IN  ecdsa' = IF c.status = Success
                     THEN [ecdsa EXCEPT !.nostrLinks[c.sender] = c.nostrPubKey,
                                        !.emitted = <<LinkCreated(c.sender, c.nostrPubKey)>>,
                                        !.last = called]
                     ELSE [ecdsa EXCEPT !.emitted = <<>>, !.last = called]
    /\ UNCHANGED <<registryVars, clientVars>>

LinkNostrAttested_unchecked ==
    /\ ecdsa.variant = "linkNostrAttested"
    /\ \E c \in LinkNostrAttestedCalls :
        LET status == IF c.recovered.reverted THEN c.recovered.reason ELSE Success
            called == EcdsaCalled("linkNostrAttested", status, ZeroAddress, c.ethAddress,
                                  c.nostrPubKey, ZeroAddress, c.recovered)
        IN  ecdsa' = IF status = Success
                     THEN [ecdsa EXCEPT !.nostrLinks[c.ethAddress] = c.nostrPubKey,
                                        !.emitted = <<LinkCreated(c.ethAddress, c.nostrPubKey)>>,
                                        !.last = called]
                     ELSE [ecdsa EXCEPT !.emitted = <<>>, !.last = called]
    /\ UNCHANGED <<registryVars, clientVars>>

\* any account may send the call; the sender is not looked at
LinkNostrAttested ==
    /\ ecdsa.variant = "linkNostrAttested"
    /\ \E c \in LinkNostrAttestedCalls :
        LET status == IF c.recovered.reverted THEN c.recovered.reason
                      ELSE IF c.recovered.value # ecdsa.trustedSigner
                           THEN "Invalid server signature"
                      ELSE Success
            called == EcdsaCalled("linkNostrAttested", status, ZeroAddress, c.ethAddress,
                                  c.nostrPubKey, ZeroAddress, c.recovered)
        IN  ecdsa' = IF status = Success
                     THEN [ecdsa EXCEPT !.nostrLinks[c.ethAddress] = c.nostrPubKey,
                                        !.emitted = <<LinkCreated(c.ethAddress, c.nostrPubKey)>>,
                                        !.last = called]
                     ELSE [ecdsa EXCEPT !.emitted = <<>>, !.last = called]
    /\ UNCHANGED <<registryVars, clientVars>>

\* any account may send the call; the record keeps the parsed account and key
Owner_PushLinkr ==
    /\ ecdsa.variant = "ownerAttested"
    /\ \E c \in Owner_pushCalls :
        LET status == Owner_pushLinkr(ecdsa.owner, ecdsa.addressPubkey, ecdsa.pubkeyAddress,
                                      c.signer, c.recovered, c.parsed)
            addr == IF c.parsed.reverted THEN ZeroAddress ELSE c.parsed.value.addr
            pubkey == IF c.parsed.reverted THEN ZeroKey ELSE c.parsed.value.pubkey
            called == EcdsaCalled("pushLinkr", status, ZeroAddress, addr, pubkey,
                                  c.signer, c.recovered)
        IN  ecdsa' = IF status = Success
                     THEN [ecdsa EXCEPT
                            !.addressPubkey[addr] = pubkey,
                            !.pubkeyAddress[pubkey] = addr,
                            !.emitted = <<Owner_LinkrPushed(c.message, c.signature, c.signer)>>,
                            !.last = called]
                     ELSE [ecdsa EXCEPT !.emitted = <<>>, !.last = called]
    /\ UNCHANGED <<registryVars, clientVars>>

\* pullLinkr is onlyOwner and removes the link of the owner's own address
Owner_PullLinkr ==
    /\ ecdsa.variant = "ownerAttested"
    /\ \E sender \in Accounts :
        LET pubkey == ecdsa.addressPubkey[sender]
            called == [EcdsaNoCall EXCEPT !.op = "pullLinkr", !.sender = sender]
        IN  ecdsa' = IF sender # ecdsa.owner
                     THEN [ecdsa EXCEPT !.emitted = <<>>,
                                        !.last = [called EXCEPT !.status = "Not the contract owner"]]
                     ELSE [ecdsa EXCEPT !.addressPubkey[sender] = ZeroKey,
                                        !.pubkeyAddress[pubkey] = ZeroAddress,
                                        !.emitted = <<LinkrPulled(sender, pubkey)>>,
                                        !.last = called]
    /\ UNCHANGED <<registryVars, clientVars>>

Owner_UpdateOwner ==
    /\ ecdsa.variant = "ownerAttested"
    /\ \E sender \in Accounts, newOwner \in Accounts \cup {ZeroAddress} :
        LET called == [EcdsaNoCall EXCEPT !.op = "updateOwner", !.sender = sender,
                                          !.ethAddress = newOwner]
        IN  ecdsa' = IF sender # ecdsa.owner
                     THEN [ecdsa EXCEPT !.emitted = <<>>,
                                        !.last = [called EXCEPT !.status = "Not the contract owner"]]
                     ELSE IF newOwner = ZeroAddress
                     THEN [ecdsa EXCEPT !.emitted = <<>>,
                                        !.last = [called EXCEPT !.status = "Zero address not allowed"]]
                     ELSE [ecdsa EXCEPT !.owner = newOwner, !.emitted = <<>>, !.last = called]
    /\ UNCHANGED <<registryVars, clientVars>>

NextEcdsa ==
    LinkNostr \/ LinkNostrAttested \/ Owner_PushLinkr \/ Owner_PullLinkr \/ Owner_UpdateOwner

SpecEcdsa == InitEcdsa /\ [][NextEcdsa]_vars

(***************************************************************************)
(* The hashing utilities and the registry that takes the content as an     *)
(* address                                                                 *)
(***************************************************************************)
\* "0x" followed by the lowercase hex digits
bytesToHex(data) == <<48, 120>> \o [k \in 1..(2 * Len(data)) |->
    IF k % 2 = 1 THEN alphabet[(data[(k + 1) \div 2] \div 16) + 1]
    ELSE alphabet[(data[k \div 2] % 16) + 1]]

addressToString(_addr) == <<48, 120>> \o [k \in 1..40 |->
    IF k % 2 = 1 THEN alphabet[(_addr[(k + 1) \div 2] \div 16) + 1]
    ELSE alphabet[(_addr[k \div 2] % 16) + 1]]

\* getEventHash of the registry: the utility for testing
NostrLinkr_getEventHash(pubkey, createdAt, kind, tags, content) ==
    sha256(<<91, 48, 44, 34>> \o bytesToHex(pubkey) \o <<34, 44>>
            \o uint2str(createdAt) \o <<44>> \o uint2str(kind) \o <<44>>
            \o tags \o <<44, 34>> \o addressToString(content) \o <<34, 93>>)

\* the serialization of the registry that takes the content as an address
Hardhat_serializedEvent(pubkey, createdAt, kind, tags, content) ==
    <<91, 48, 44, 34>> \o bytesToHex(pubkey) \o <<34, 44>>
        \o uint2str(createdAt) \o <<44>> \o uint2str(kind) \o <<44>>
        \o tags \o <<44, 34>> \o addressToString(content) \o <<34, 93>>

Hardhat_getEventHash(pubkey, createdAt, kind, tags, content) ==
    sha256(Hardhat_serializedEvent(pubkey, createdAt, kind, tags, content))

Hardhat_verifyNostrEvent(eventId, pubkey, createdAt, kind, tags, content, signature) ==
    IF Len(signature) # 64 THEN Revert("Signature must be 64 bytes")
    ELSE IF sha256(Hardhat_serializedEvent(pubkey, createdAt, kind, tags, content)) # eventId
         THEN Revert("Event ID mismatch")
    ELSE Return(verifySchnorrSignature(pubkey, eventId, signature))

HARDHAT_FUTURE_TOLERANCE == 100

\* the requires of pushLinkr in their order; a.content is an address
Hardhat_pushLinkrChecks(sender, a, timestamp) ==
    IF Len(a.sig) # 64 THEN "Invalid signature length"
    ELSE IF a.content # sender THEN "Content address must match sender"
    ELSE IF a.kind # LINKR_KIND THEN "Invalid kind for Nostr Linkr"
    ELSE IF ~(a.createdAt <= timestamp + HARDHAT_FUTURE_TOLERANCE)
         THEN "CreatedAt must be in the past"
    ELSE IF a.tags # EmptyTags THEN "Tags must be empty for Nostr Linkr"
    ELSE LET v == Hardhat_verifyNostrEvent(a.id, a.pubkey, a.createdAt, a.kind, a.tags,
                                           a.content, a.sig)
         IN  IF v.reverted THEN v.reason
             ELSE IF ~v.value THEN "Invalid Nostr signature"
             ELSE Success

\* the account whose address is written as `text`
ContentAddress(text) == CHOOSE a \in Accounts : addressToStringNoPrefix(a) = text

\* the fields of an event whose id is not yet computed: every sender, key,
\* kind and content account, created in the past
HashCalls ==
    {[sender |-> sender,
      args |-> [id |-> sha256(<<>>), pubkey |-> pubkey, createdAt |-> createdAt,
                kind |-> kind, tags |-> EmptyTags,
                content |-> addressToStringNoPrefix(c), sig |-> SigInRange],
      origin |-> "fields"] :
        sender \in Accounts, c \in Accounts, pubkey \in PubKeys,
        createdAt \in {0, GenesisTime}, kind \in {LINKR_KIND, 1}}

InitHash ==
    /\ addressPubkey = [a \in Accounts |-> ZeroKey]
    /\ pubkeyAddress = [p \in PubKeys |-> ZeroAddress]
    /\ now \in BlockTimes
    /\ emitted = <<>>
    /\ last = NoCall
    /\ call \in HashCalls
    /\ ecdsa = NotDeployed
    /\ ui = NoInvocation
    /\ relay = NotMounted
    /\ feed = FeedNotMounted
    /\ conv = NotConverting

\* the id of the fields is asked from getEventHash of the registry
CallGetEventHash ==
    /\ call.origin = "fields"
    /\ last.op = "none"
    /\ call' = [call EXCEPT
                    !.args.id = NostrLinkr_getEventHash(call.args.pubkey, call.args.createdAt,
                                    call.args.kind, call.args.tags,
                                    ContentAddress(call.args.content)),
                    !.origin = "getEventHash"]
    /\ UNCHANGED <<addressPubkey, pubkeyAddress, now, emitted, last, componentVars>>

\* the id is asked from getEventHash of the registry that takes an address
Hardhat_CallGetEventHash ==
    /\ call.origin = "fields"
    /\ last.op = "none"
    /\ call' = [call EXCEPT
                    !.args.id = Hardhat_getEventHash(call.args.pubkey, call.args.createdAt,
                                    call.args.kind, call.args.tags,
                                    ContentAddress(call.args.content)),
                    !.origin = "Hardhat_getEventHash"]
    /\ UNCHANGED <<addressPubkey, pubkeyAddress, now, emitted, last, componentVars>>

\* the id is computed by the client library over the key as hex text and the
\* content as written
ClientGetEventHash ==
    /\ call.origin = "fields"
    /\ last.op = "none"
    /\ call' = [call EXCEPT
                    !.args.id = getEventHash(ExtensionPubkeyText(call.args.pubkey),
                                    call.args.createdAt, call.args.kind, call.args.content),
                    !.origin = "nostr-tools"]
    /\ UNCHANGED <<addressPubkey, pubkeyAddress, now, emitted, last, componentVars>>

\* the arguments of the prepared call with the content as an address
Hardhat_args(a) == [a EXCEPT !.content = ContentAddress(a.content)]

\* pushLinkr of the registry that takes an address: the same clean-up and
\* writes
Hardhat_SendPush ==
    /\ last.op = "none"
    /\ LET a == Hardhat_args(call.args)
           status == Hardhat_pushLinkrChecks(call.sender, a, now)
           w == pushLinkrWrites(addressPubkey, pubkeyAddress, call.sender, a.pubkey)
       IN  IF status = Success
           THEN /\ addressPubkey' = w.addressPubkey
                /\ pubkeyAddress' = w.pubkeyAddress
                /\ emitted' = <<LinkrPushed(call.sender, a.pubkey)>>
                /\ last' = [op |-> "Hardhat_pushLinkr", sender |-> call.sender,
                            status |-> Success, args |-> call.args,
                            existingPubkey |-> w.existingPubkey,
                            existingAddress |-> w.existingAddress]
           ELSE /\ emitted' = <<>>
                /\ last' = Reverted("Hardhat_pushLinkr", status)
                /\ UNCHANGED <<addressPubkey, pubkeyAddress>>
    /\ UNCHANGED <<now, call, componentVars>>

Hardhat_CallVerifyNostrEvent ==
    /\ last.op = "none"
    /\ LET a == Hardhat_args(call.args)
           v == Hardhat_verifyNostrEvent(a.id, a.pubkey, a.createdAt, a.kind, a.tags,
                                         a.content, a.sig)
       IN  last' = [NoCall EXCEPT
                        !.op = "Hardhat_verifyNostrEvent", !.sender = call.sender,
                        !.status = IF v.reverted THEN v.reason
                                   ELSE IF v.value THEN "true" ELSE "false"]
    /\ UNCHANGED <<addressPubkey, pubkeyAddress, now, emitted, call, componentVars>>

NextHash ==
    \/ CallGetEventHash
    \/ Hardhat_CallGetEventHash
    \/ ClientGetEventHash
    \/ SendPush
    \/ CallVerifyNostrEvent
    \/ Hardhat_SendPush
    \/ Hardhat_CallVerifyNostrEvent

SpecHash == InitHash /\ [][NextHash]_vars

(***************************************************************************)
(* Resubmission of an accepted event                                       *)
(*                                                                         *)
(* call holds the sender and the arguments of a pushLinkr transaction that *)
(* succeeded; other transactions follow, and the sender submits the same   *)
(* arguments again.                                                        *)
(***************************************************************************)
\* a pushLinkr transaction of the first account for the first key succeeds
\* and the account keeps the event
AcceptAndKeep ==
    /\ \E o \in PushOutcomes :
        /\ o[1] = now
        /\ o[2] = Account(1)
        /\ o[3].pubkey = Key(1)
        /\ o[4] = Success
        /\ PushLinkrCall(o[2], o[3], o[4])
        /\ call' = [sender |-> o[2], args |-> o[3], origin |-> "accepted"]
    /\ UNCHANGED componentVars

\* any account sends a pushLinkr transaction that succeeds (a rejected one
\* leaves the registry as it was)
PushAccepted ==
    /\ \E o \in PushOutcomes :
        /\ o[1] = now
        /\ o[4] = Success
        /\ PushLinkrCall(o[2], o[3], o[4])
    /\ UNCHANGED <<call, componentVars>>

\* the sender of the kept event submits it again
Resubmit ==
    /\ call.origin = "accepted"
    /\ \E o \in PushOutcomes :
        /\ o[1] = now
        /\ o[2] = call.sender
        /\ o[3] = call.args
        /\ PushLinkrCall(o[2], o[3], o[4])
    /\ call' = [call EXCEPT !.origin = "resubmitted"]
    /\ UNCHANGED componentVars

NextReplay == AcceptAndKeep \/ Resubmit \/ PushAccepted \/ PullLinkr \/ Tick

SpecReplay == Init /\ [][NextReplay]_vars

(***************************************************************************)
(* Component: one performLink at a time                                    *)
(*                                                                         *)
(* The steps are the pieces of performLink between its awaits; what the    *)
(* signing extension and the contract-write hook answer is chosen by the   *)
(* environment.                                                            *)
(***************************************************************************)
\* a text of n characters c
CharText(c, n) == [k \in 1..n |-> c]

\* what signEvent may resolve with: null, an event without sig, with an
\* empty sig, with 127, 128 or 129 hex characters, with 128 characters that
\* are no hex digits
SignEventResults ==
    {[returned |-> "null", hasSig |-> FALSE, sig |-> <<>>],
     [returned |-> "event", hasSig |-> FALSE, sig |-> <<>>]}
        \cup {[returned |-> "event", hasSig |-> TRUE, sig |-> t] :
                t \in {<<>>, CharText(97, 127), CharText(97, 128), CharText(97, 129),
                       CharText(122, 128)}}

SignatureAccepted_noLengthCheck(signedEvent) ==
    ~(~signedEvent.hasSig \/ signedEvent.sig = <<>>)

\* the test of line 126, negated: sig is truthy and has 128 characters
SignatureAccepted(signedEvent) ==
    ~(~signedEvent.hasSig \/ signedEvent.sig = <<>> \/ Len(signedEvent.sig) # 128)

\* catch and finally of performLink
LinkFailed(u) == [u EXCEPT !.pc = "ended", !.notification = "error", !.loading = FALSE]

\* the button is pressed with the connected account's address text as the
\* prop: setLoading(true), setResponse(null), and the test for window.nostr
PerformLink_begin ==
    /\ ui.pc \in {"idle", "ended"}
    /\ \E account \in Accounts : \E address \in AddressTexts(account), extension \in BOOLEAN :
        ui' = IF ~extension
              THEN [NoInvocation EXCEPT !.pc = "ended", !.address = address,
                                        !.notification = "error", !.loading = FALSE]
              ELSE [NoInvocation EXCEPT !.pc = "getPublicKey", !.address = address,
                                        !.extension = TRUE, !.loading = TRUE]
    /\ UNCHANGED <<registryVars, ecdsa, relay, feed, conv>>

\* getPublicKey resolves with a key text or rejects; the event is built at
\* the client's time and signEvent is called
GetPublicKey_settles ==
    /\ ui.pc = "getPublicKey"
    /\ \/ \E pubkey \in KeyTexts, clock \in BlockTimes :
            ui' = [ui EXCEPT !.pc = "signEvent", !.pubkey = pubkey, !.createdAt = clock,
                             !.content = replace0x(toLowerCase(ui.address))]
       \/ ui' = LinkFailed(ui)
    /\ UNCHANGED <<registryVars, ecdsa, relay, feed, conv>>

\* signEvent resolves or rejects; a result that passes the test of line 126
\* is handed to pushLinkr
SignEvent_settles ==
    /\ ui.pc = "signEvent"
    /\ \/ \E signedEvent \in SignEventResults :
            ui' = IF signedEvent.returned = "null" \/ ~SignatureAccepted(signedEvent)
                  THEN LinkFailed([ui EXCEPT !.signedEvent = signedEvent])
                  ELSE [ui EXCEPT !.pc = "pushLinkr", !.signedEvent = signedEvent,
                                  !.submissions = @ + 1, !.pushLinkr = "pending"]
       \/ ui' = LinkFailed(ui)
    /\ UNCHANGED <<registryVars, ecdsa, relay, feed, conv>>

\* the contract write resolves or rejects
PushLinkr_settles ==
    /\ ui.pc = "pushLinkr"
    /\ \/ ui' = [ui EXCEPT !.pc = "ended", !.pushLinkr = "resolved",
                           !.notification = "success",
                           !.response = [message |-> "Identity link established on-chain!",
                                         pubkey |-> ui.pubkey,
                                         signature |-> ui.signedEvent.sig,
                                         timestamp |-> ui.createdAt],
                           !.loading = FALSE]
       \/ ui' = LinkFailed([ui EXCEPT !.pushLinkr = "rejected"])
    /\ UNCHANGED <<registryVars, ecdsa, relay, feed, conv>>

NextLink == PerformLink_begin \/ GetPublicKey_settles \/ SignEvent_settles \/ PushLinkr_settles

SpecLink == Init /\ [][NextLink]_vars

(***************************************************************************)
(* Hook: useNostrConnection                                                *)
(*                                                                         *)
(* The hook connects once when it is mounted; no component calls the       *)
(* connectToRelay or cleanupConnection it returns, so every later attempt  *)
(* comes from the reconnect timer.  relayRef follows the relay state.      *)
(* The steps are the mount and unmount effects and the callbacks of the    *)
(* socket and of the two timers; when the socket opens, fails or closes    *)
(* is chosen by the environment.  The socket is "connecting",               *)
(* "open" (and then held as relay.ws), "closing" (close() was called on    *)
(* it while connecting) or "none".                                         *)
(***************************************************************************)
MAX_RECONNECT_ATTEMPTS == 5

\* the close codes a socket reports: normal, going away, abnormal
CloseCodes == {1000, 1001, 1006}

\* the promise of the running connectToRelay settles: its finally empties
\* connectPromiseRef
Settled(r) == [r EXCEPT !.connectPromise = "none"]

\* an open socket held in relay.ws loses its callbacks and is closed; the
\* reconnect timer is cleared; connectPromiseRef is emptied
cleanupConnection(r) ==
    [r EXCEPT !.socket = IF r.socket = "open" THEN "none" ELSE @,
              !.reconnectTimeout = FALSE,
              !.connectPromise = "none"]

\* connectToRelay up to its await; tooSoon: less than MIN_RECONNECT_INTERVAL
\* has passed since the last attempt
connectToRelay(r, isReconnect, tooSoon) ==
    IF ~r.mounted THEN r
    ELSE IF r.connectPromise = "pending" THEN r
    ELSE IF tooSoon THEN r
    ELSE IF r.connected THEN r
    ELSE [cleanupConnection(r) EXCEPT
            !.connecting = TRUE,
            !.reconnectAttempts = IF isReconnect THEN @ + 1 ELSE 0,
            !.loading = FALSE,
            !.socket = "connecting",
            !.isReconnect = isReconnect,
            !.connectionTimeout = TRUE,
            !.connectPromise = "pending",
            !.sinceOpen = IF isReconnect THEN @ + 1 ELSE 0]

\* ws.onerror
onerror(r) ==
    Settled([r EXCEPT !.connectionTimeout = FALSE,
                      !.notification = IF r.mounted /\ ~r.isReconnect THEN "error" ELSE @])

onclose_offByOne(r, code) ==
    LET closed == [r EXCEPT !.connectionTimeout = FALSE, !.closeCode = code, !.socket = "none"]
    IN  IF ~r.mounted THEN Settled(closed)
        ELSE LET down == [closed EXCEPT !.connected = FALSE, !.connecting = FALSE,
                                        !.subscriptionActive = FALSE]
                 next == IF code # 1000 /\ code # 1001
                         THEN IF r.reconnectAttempts <= MAX_RECONNECT_ATTEMPTS
                              THEN [down EXCEPT !.reconnectTimeout = TRUE]
                              ELSE [down EXCEPT !.notification = "error"]
                         ELSE down
             IN  IF ~r.isReconnect THEN Settled(next) ELSE next

\* ws.onclose with the code of the close event
onclose(r, code) ==
    LET closed == [r EXCEPT !.connectionTimeout = FALSE, !.closeCode = code, !.socket = "none"]
    IN  IF ~r.mounted THEN Settled(closed)
        ELSE LET down == [closed EXCEPT !.connected = FALSE, !.connecting = FALSE,
                                        !.subscriptionActive = FALSE]
                 next == IF code # 1000 /\ code # 1001
                         THEN IF r.reconnectAttempts < MAX_RECONNECT_ATTEMPTS
                              THEN [down EXCEPT !.reconnectTimeout = TRUE]
                              ELSE [down EXCEPT !.notification = "error"]
                         ELSE down
             IN  IF ~r.isReconnect THEN Settled(next) ELSE next

\* the mount effect: mountedRef.current = true; connectToRelay(DEFAULT_RELAYS[0])
Mount ==
    /\ relay = NotMounted
    /\ relay' = connectToRelay([relay EXCEPT !.mounted = TRUE], FALSE, FALSE)
    /\ UNCHANGED <<registryVars, ecdsa, ui, feed, conv>>

\* the clean-up of the mount effect
Unmount ==
    /\ relay.mounted
    /\ relay' = cleanupConnection([relay EXCEPT !.mounted = FALSE])
    /\ UNCHANGED <<registryVars, ecdsa, ui, feed, conv>>

\* ws.onopen
SocketOpens ==
    /\ relay.socket = "connecting"
    /\ relay' = IF ~relay.mounted
                THEN Settled([relay EXCEPT !.socket = "closing"])
                ELSE Settled([relay EXCEPT
                        !.connectionTimeout = FALSE,
                        !.socket = "open",
                        !.connected = TRUE,
                        !.connecting = FALSE,
                        !.reconnectAttempts = 0,
                        !.notification = IF ~relay.isReconnect THEN "success" ELSE @,
                        !.sinceOpen = 0])
    /\ UNCHANGED <<registryVars, ecdsa, ui, feed, conv>>

\* the connection cannot be established: the error event, then the close
\* event with code 1006
SocketFails ==
    /\ relay.socket \in {"connecting", "closing"}
    /\ relay' = onclose(onerror(relay), 1006)
    /\ UNCHANGED <<registryVars, ecdsa, ui, feed, conv>>

\* the open socket is closed by the relay or by the network
SocketCloses ==
    /\ relay.socket = "open"
    /\ \E code \in CloseCodes : relay' = onclose(relay, code)
    /\ UNCHANGED <<registryVars, ecdsa, ui, feed, conv>>

\* CONNECTION_TIMEOUT has passed
ConnectionTimeoutFires ==
    /\ relay.connectionTimeout
    /\ relay' = IF ~relay.mounted THEN [relay EXCEPT !.connectionTimeout = FALSE]
                ELSE IF relay.socket = "connecting"
                     THEN Settled([relay EXCEPT !.connectionTimeout = FALSE,
                                                !.socket = "closing"])
                ELSE [relay EXCEPT !.connectionTimeout = FALSE]
    /\ UNCHANGED <<registryVars, ecdsa, ui, feed, conv>>

\* RECONNECT_DELAY has passed, which is more than MIN_RECONNECT_INTERVAL
\* after the last attempt
ReconnectTimeoutFires ==
    /\ relay.reconnectTimeout
    /\ relay' = connectToRelay([relay EXCEPT !.reconnectTimeout = FALSE], TRUE, FALSE)
    /\ UNCHANGED <<registryVars, ecdsa, ui, feed, conv>>

\* the page that uses the hook has sent its subscription
SetSubscriptionActive ==
    /\ relay.mounted
    /\ relay.connected
    /\ ~relay.subscriptionActive
    /\ relay' = [relay EXCEPT !.subscriptionActive = TRUE]
    /\ UNCHANGED <<registryVars, ecdsa, ui, feed, conv>>

NextRelay ==
    \/ Mount
    \/ Unmount
    \/ SocketOpens
    \/ SocketFails
    \/ SocketCloses
    \/ ConnectionTimeoutFires
    \/ ReconnectTimeoutFires
    \/ SetSubscriptionActive

SpecRelay == Init /\ [][NextRelay]_vars

(***************************************************************************)
(* Page: main feed (follow state)                                          *)
(*                                                                         *)
(* The page keeps the followed set in its own state and saves it under     *)
(* "nostr-following"; the authors map is state of useNostrConnection.  A   *)
(* JavaScript Set and Map keep insertion order and are held as sequences;  *)
(* the saved value is the JSON text of an array of strings and is held as  *)
(* the array it parses to.  Profile pages save under the same key, so the  *)
(* page may find a list already when it is first mounted.                  *)
(***************************************************************************)
Elements(list) == {list[i] : i \in 1..Len(list)}

\* new Set(array): the elements in the order of their first occurrence
RECURSIVE NewSet(_)
NewSet(array) ==
    IF array = <<>> THEN <<>>
    ELSE LET front == NewSet(SubSeq(array, 1, Len(array) - 1))
             x == array[Len(array)]
         IN  IF x \in Elements(front) THEN front ELSE Append(front, x)

\* Map.has, Map.get and Map.set on the authors map
MapHas(authors, pubkey) == \E i \in 1..Len(authors) : authors[i].pubkey = pubkey

MapGet(authors, pubkey) ==
    authors[CHOOSE i \in 1..Len(authors) : authors[i].pubkey = pubkey]

MapSet(authors, pubkey, author) ==
    IF MapHas(authors, pubkey)
    THEN [i \in 1..Len(authors) |-> IF authors[i].pubkey = pubkey THEN author ELSE authors[i]]
    ELSE Append(authors, author)

\* { pubkey, isFollowed: false }
NewAuthor(pubkey) == [pubkey |-> pubkey, isFollowed |-> FALSE, hasProfile |-> FALSE]

\* followingArray.forEach of the load effect: an author already in the map
\* is marked as followed, a missing one is not added
RECURSIVE LoadFollowing(_, _)
LoadFollowing(authors, followingArray) ==
    IF followingArray = <<>> THEN authors
    ELSE LET pubkey == Head(followingArray)
             marked == IF MapHas(authors, pubkey)
                       THEN MapSet(authors, pubkey,
                                   [MapGet(authors, pubkey) EXCEPT !.isFollowed = TRUE])
                       ELSE authors
         IN  LoadFollowing(marked, Tail(followingArray))

\* the setAuthors updater of handleProfileMetadata
handleProfileMetadata(authors, pubkey) ==
    LET existingAuthor == IF MapHas(authors, pubkey) THEN MapGet(authors, pubkey)
                          ELSE NewAuthor(pubkey)
    IN  MapSet(authors, pubkey, [existingAuthor EXCEPT !.hasProfile = TRUE])

\* the setFollowedPubkeys updater of toggleFollow
ToggledSet(prev, pubkey) ==
    IF pubkey \in Elements(prev)
    THEN SelectSeq(prev, LAMBDA x : x # pubkey)
    ELSE Append(prev, pubkey)

\* the setAuthors updater of toggleFollow
ToggledAuthors(authors, pubkey) ==
    LET author == IF MapHas(authors, pubkey) THEN MapGet(authors, pubkey)
                  ELSE NewAuthor(pubkey)
    IN  MapSet(authors, pubkey, [author EXCEPT !.isFollowed = ~author.isFollowed])

\* the lists found at the first visit: nothing followed, or one public key
\* followed on a profile page; longer lists are saved by the page itself
SavedLists == {<<>>} \cup {<<pubkey>> : pubkey \in KeyTexts}

InitFeed ==
    /\ addressPubkey = [a \in Accounts |-> ZeroKey]
    /\ pubkeyAddress = [p \in PubKeys |-> ZeroAddress]
    /\ now = GenesisTime
    /\ emitted = <<>>
    /\ last = NoCall
    /\ call = NoPreparedCall
    /\ ecdsa = NotDeployed
    /\ ui = NoInvocation
    /\ relay = NotMounted
    /\ conv = NotConverting
    /\ \E present \in BOOLEAN :
       \E list \in (IF present THEN SavedLists ELSE {<<>>}) :
          feed = [FeedNotMounted EXCEPT !.storage = [present |-> present, list |-> list]]

\* the page is mounted: the state of the page and of the hook is new, and
\* the load effect reads the saved list
FeedMount ==
    /\ ~feed.mounted
    /\ feed' = IF feed.storage.present
               THEN [feed EXCEPT !.mounted = TRUE,
                                 !.followedPubkeys = NewSet(feed.storage.list),
                                 !.authors = LoadFollowing(feed.authors, feed.storage.list)]
               ELSE [feed EXCEPT !.mounted = TRUE]
    /\ UNCHANGED <<registryVars, ecdsa, ui, relay, conv>>

\* the page is left: its state and the state of the hook are dropped, the
\* saved list stays
FeedUnmount ==
    /\ feed.mounted
    /\ feed' = [feed EXCEPT !.mounted = FALSE, !.followedPubkeys = <<>>, !.authors = <<>>]
    /\ UNCHANGED <<registryVars, ecdsa, ui, relay, conv>>

\* the relay delivers a kind 0 event of pubkey whose content parses
HandleProfileMetadata ==
    /\ feed.mounted
    /\ \E pubkey \in KeyTexts :
          feed' = [feed EXCEPT !.authors = handleProfileMetadata(@, pubkey)]
    /\ UNCHANGED <<registryVars, ecdsa, ui, relay, conv>>

\* the follow button of a post of pubkey is pressed; the list is saved
ToggleFollow ==
    /\ feed.mounted
    /\ \E pubkey \in KeyTexts :
          LET newSet == ToggledSet(feed.followedPubkeys, pubkey)
          IN  feed' = [feed EXCEPT !.followedPubkeys = newSet,
                                   !.storage = [present |-> TRUE, list |-> newSet],
                                   !.authors = ToggledAuthors(@, pubkey)]
    /\ UNCHANGED <<registryVars, ecdsa, ui, relay, conv>>

NextFeed ==
    \/ FeedMount
    \/ FeedUnmount
    \/ HandleProfileMetadata
    \/ ToggleFollow

SpecFeed == InitFeed /\ [][NextFeed]_vars

(***************************************************************************)
(* Library function: uint2str, statement by statement                      *)
(*                                                                         *)
(* conv is the frame of one call: the argument n as it was passed, the     *)
(* locals _i, j, len, k and bstr, and the string returned.  The arithmetic *)
(* is the checked arithmetic of Solidity 0.8: k - 1 below zero panics.     *)
(* The arguments are the numbers up to MaxUint, the powers of ten with     *)
(* their neighbours, and 2^31 - 1.                                         *)
(***************************************************************************)
Uints ==
    (0..MaxUint)
        \cup {999, 1000, 1001, 9999, 10000, 10001, 99999, 100000, 999999, 1000000,
              1000000000, 2147483647}

uint2strDigit_quotient(_i) == 48 + (((_i \div 10) % 10) % 256)

\* uint8 temp = (48 + uint8(_i - _i / 10 * 10))
uint2strDigit(_i) == 48 + ((_i - (_i \div 10) * 10) % 256)

InitUint2str ==
    /\ addressPubkey = [a \in Accounts |-> ZeroKey]
    /\ pubkeyAddress = [p \in PubKeys |-> ZeroAddress]
    /\ now = GenesisTime
    /\ emitted = <<>>
    /\ last = NoCall
    /\ call = NoPreparedCall
    /\ ecdsa = NotDeployed
    /\ ui = NoInvocation
    /\ relay = NotMounted
    /\ feed = FeedNotMounted
    /\ \E n \in Uints : conv = [NotConverting EXCEPT !.pc = "called", !.n = n, !._i = n]

\* if (_i == 0) return "0"; j = _i; len = 0
Uint2str_enter ==
    /\ conv.pc = "called"
    /\ conv' = IF conv._i = 0
               THEN [conv EXCEPT !.pc = "returned", !.result = <<48>>]
               ELSE [conv EXCEPT !.pc = "length", !.j = conv._i, !.len = 0]
    /\ UNCHANGED <<registryVars, ecdsa, ui, relay, feed>>

\* one test of while (j != 0) and its body, or else bstr = new bytes(len);
\* k = len
Uint2str_length ==
    /\ conv.pc = "length"
    /\ conv' = IF conv.j # 0
               THEN [conv EXCEPT !.len = @ + 1, !.j = @ \div 10]
               ELSE [conv EXCEPT !.pc = "build", !.bstr = Rep(0, conv.len), !.k = conv.len]
    /\ UNCHANGED <<registryVars, ecdsa, ui, relay, feed>>

\* one test of while (_i != 0) and its body, or else return string(bstr)
Uint2str_build ==
    /\ conv.pc = "build"
    /\ conv' = IF conv._i # 0
               THEN IF conv.k = 0
                    THEN [conv EXCEPT !.pc = "panic"]
                    ELSE [conv EXCEPT !.k = @ - 1,
                                      !.bstr = [@ EXCEPT ![conv.k] = uint2strDigit(conv._i)],
                                      !._i = @ \div 10]
               ELSE [conv EXCEPT !.pc = "returned", !.result = conv.bstr]
    /\ UNCHANGED <<registryVars, ecdsa, ui, relay, feed>>

NextUint2str ==
    \/ Uint2str_enter
    \/ Uint2str_length
    \/ Uint2str_build

\* a call that has begun is run to its end
SpecUint2str == InitUint2str /\ [][NextUint2str]_vars /\ WF_vars(NextUint2str)

(***************************************************************************)
(* Vocabulary of the properties                                            *)
(***************************************************************************)
NoLinkFound == "No link found for this address"
ContentMismatch == "Content must be sender's address without 0x prefix"
InvalidSignature == "Invalid Nostr signature"

\* lookup_by_account / lookup_by_key: the public getters of the two mappings;
\* an all-zero stored value is "absent"
Present(a) == addressPubkey[a] # ZeroKey
PresentNext(a) == addressPubkey'[a] # ZeroKey

PushSucceeded == last.op = "pushLinkr" /\ last.status = Success
PullSucceeded == last.op = "pullLinkr" /\ last.status = Success

\* this step is a successful / failed pushLinkr, a successful pullLinkr, any pullLinkr
PushOkStep == last'.op = "pushLinkr" /\ last'.status = Success /\ now' = now
PushFailStep == last'.op = "pushLinkr" /\ last'.status # Success /\ now' = now
PullOkStep == last'.op = "pullLinkr" /\ last'.status = Success /\ now' = now
PullStep == last'.op = "pullLinkr" /\ now' = now

\* str is the lowercase hex rendering, without prefix, of the byte string data
IsLowerHexOf(str, data) ==
    /\ Len(str) = 2 * Len(data)
    /\ \A i \in 1..Len(data) :
        /\ HexDigit(str[2 * i - 1]) < 16
        /\ HexDigit(str[2 * i]) < 16
        /\ 16 * HexDigit(str[2 * i - 1]) + HexDigit(str[2 * i]) = data[i]

\* every signature that differs from sig in exactly one byte is rejected for
\* the event otherwise equal to the accepted one
OneByteChanges(sig) ==
    {[sig EXCEPT ![i] = b] : i \in 1..Len(sig), b \in {0, 1, 2, 3, 128, 255}} \ {sig}

(***************************************************************************)
(* C1 (stated as claimed; it fails on the code).  Bijection invariant: in  *)
(* every reachable state, for every account a and every key p other than   *)
(* the all-zero "absent" value, addressPubkey[a] = p if and only if        *)
(* pubkeyAddress[p] = a; no account is paired with two keys and no key     *)
(* with two accounts.                                                      *)
(***************************************************************************)
C1_Bijection ==
    /\ \A a \in Accounts : \A p \in PubKeys \ {ZeroKey} :
          (addressPubkey[a] = p) <=> (pubkeyAddress[p] = a)
    /\ \A a \in Accounts :
          Cardinality({p \in PubKeys \ {ZeroKey} : pubkeyAddress[p] = a}) <= 1
    /\ \A p \in PubKeys \ {ZeroKey} :
          Cardinality({a \in Accounts : addressPubkey[a] = p}) <= 1

(***************************************************************************)
(* C2 (stated as claimed; it fails on the code).  Signature authenticity:  *)
(* starting from an event that pushLinkr accepted, the same event with any *)
(* single byte of the signature changed is rejected.                       *)
(***************************************************************************)
C2_TamperedSignatureRejected ==
    PushSucceeded =>
        \A sig \in OneByteChanges(last.args.sig) :
            pushLinkrChecks(last.sender, [last.args EXCEPT !.sig = sig], now) # Success

(***************************************************************************)
(* C3.  Account binding: the content of an accepted push is the 40         *)
(* character lowercase hex rendering, without prefix, of the caller; the   *)
(* accepted event submitted by any other account is rejected with the      *)
(* content-mismatch error; a successful push sets no other account's       *)
(* forward entry to a key.                                                 *)
(***************************************************************************)
C3_AccountBinding ==
    /\ [](PushSucceeded =>
            /\ Len(last.args.content) = 40
            /\ IsLowerHexOf(last.args.content, last.sender)
            /\ \A b \in Accounts \ {last.sender} :
                  pushLinkrChecks(b, last.args, now) = ContentMismatch)
    /\ [][PushOkStep =>
            \A b \in Accounts \ {last'.sender} :
                addressPubkey'[b] \in {addressPubkey[b], ZeroKey}]_vars

\* an account submitted the linking event built for it and now holds the key
C3_Witness ==
    /\ PushSucceeded
    /\ last.args.pubkey # ZeroKey
    /\ addressPubkey[last.sender] = last.args.pubkey
    /\ last.sender = Account(2)

(***************************************************************************)
(* C4.  All-or-nothing push: a pushLinkr that fails any check leaves both  *)
(* mappings as they were and emits no event.                               *)
(***************************************************************************)
C4_FailedPushChangesNothing ==
    [][PushFailStep =>
        /\ addressPubkey' = addressPubkey
        /\ pubkeyAddress' = pubkeyAddress
        /\ emitted' = <<>>]_vars

\* a push was rejected by the signature check while links exist
C4_Witness ==
    /\ last.op = "pushLinkr"
    /\ last.status = InvalidSignature
    /\ \E a \in Accounts : Present(a)

(***************************************************************************)
(* C5 (stated as claimed; it fails on the code).  After every successful   *)
(* push the caller's forward entry is present and equals the pushed key,   *)
(* and the key's reverse entry is the caller, for every accepted key.      *)
(***************************************************************************)
C5_PushThenLookupPresent ==
    PushSucceeded =>
        /\ Present(last.sender)
        /\ addressPubkey[last.sender] = last.args.pubkey
        /\ pubkeyAddress[last.args.pubkey] = last.sender

(***************************************************************************)
(* C6.  Re-link: when an account whose forward entry is a present key      *)
(* p_old successfully pushes a different key p_new, afterwards its forward *)
(* entry is p_new, the reverse entry of p_new is the account and the       *)
(* reverse entry of p_old is absent.                                       *)
(***************************************************************************)
C6_Relink ==
    [][\A a \in Accounts :
        (PushOkStep /\ last'.sender = a /\ Present(a)
            /\ last'.args.pubkey # addressPubkey[a])
        => /\ addressPubkey'[a] = last'.args.pubkey
           /\ pubkeyAddress'[last'.args.pubkey] = a
           /\ pubkeyAddress'[addressPubkey[a]] = ZeroAddress]_vars

\* an account holding one key has just pushed the other key
C6_Witness ==
    /\ PushSucceeded
    /\ last.existingPubkey # ZeroKey
    /\ last.args.pubkey # ZeroKey
    /\ last.existingPubkey # last.args.pubkey
    /\ pubkeyAddress[last.existingPubkey] = ZeroAddress

(***************************************************************************)
(* C7.  Key takeover: when account b successfully pushes a key p whose     *)
(* reverse entry is a different account a_old, afterwards the forward      *)
(* entry of a_old is absent, the forward entry of b is p and the reverse   *)
(* entry of p is b; no key is the forward entry of two accounts.           *)
(***************************************************************************)
C7_KeyTakeover ==
    /\ [][\A b \in Accounts :
            (PushOkStep /\ last'.sender = b
                /\ pubkeyAddress[last'.args.pubkey] \notin {ZeroAddress, b})
            => /\ addressPubkey'[pubkeyAddress[last'.args.pubkey]] = ZeroKey
               /\ addressPubkey'[b] = last'.args.pubkey
               /\ pubkeyAddress'[last'.args.pubkey] = b]_vars
    /\ [](\A a1, a2 \in Accounts :
            (a1 # a2 /\ Present(a1)) => addressPubkey[a1] # addressPubkey[a2])

\* an account has just taken a key over from its previous holder
C7_Witness ==
    /\ PushSucceeded
    /\ last.args.pubkey # ZeroKey
    /\ last.existingAddress \notin {ZeroAddress, last.sender}
    /\ addressPubkey[last.existingAddress] = ZeroKey
    /\ addressPubkey[last.sender] = last.args.pubkey

(***************************************************************************)
(* C8.  Unlink clears both sides: a successful pull by an account linked   *)
(* to key p leaves, in the same step, the account's forward entry and the  *)
(* reverse entry of p absent.                                              *)
(***************************************************************************)
C8_PullClearsBothSides ==
    [][\A a \in Accounts :
        (PullOkStep /\ last'.sender = a)
        => /\ Present(a)
           /\ last'.args.pubkey = addressPubkey[a]
           /\ addressPubkey'[a] = ZeroKey
           /\ pubkeyAddress'[addressPubkey[a]] = ZeroAddress]_vars

\* an account has just pulled its link while another link stays
C8_Witness ==
    /\ PullSucceeded
    /\ ~Present(last.sender)
    /\ pubkeyAddress[last.args.pubkey] = ZeroAddress
    /\ \E b \in Accounts : Present(b)

(***************************************************************************)
(* C9.  A pull by an account whose forward entry is absent fails with the  *)
(* no-link error, changes neither mapping and emits nothing.  After any    *)
(* pull by an account its forward entry is absent, and an absent forward   *)
(* entry becomes present only by a successful push of that account; so a   *)
(* second pull with no push in between, in particular one that directly    *)
(* follows the first, fails with the no-link error.                        *)
(***************************************************************************)
C9_PullWithoutLink ==
    [][/\ \A a \in Accounts :
            /\ (PullStep /\ last'.sender = a /\ ~Present(a))
                => /\ last'.status = NoLinkFound
                   /\ addressPubkey' = addressPubkey
                   /\ pubkeyAddress' = pubkeyAddress
                   /\ emitted' = <<>>
            /\ (PullStep /\ last'.sender = a) => ~PresentNext(a)
            /\ (~Present(a) /\ PresentNext(a)) => (PushOkStep /\ last'.sender = a)
       /\ (PullStep /\ last.op = "pullLinkr" /\ last'.sender = last.sender)
            => last'.status = NoLinkFound]_vars

\* a pull by an unlinked account was rejected while another account is linked
C9_Witness ==
    /\ last.op = "pullLinkr"
    /\ last.status = NoLinkFound
    /\ emitted = <<>>
    /\ \E b \in Accounts \ {last.sender} : Present(b)

(***************************************************************************)
(* C10 (original statement; it fails on the code).  No push or pull called *)
(* by an account other than a makes the forward entry of a change between  *)
(* absent and present.                                                     *)
(***************************************************************************)
C10_SoleAuthority_Original ==
    [][\A a \in Accounts :
        (Present(a) # PresentNext(a)) => last'.sender = a]_vars

(***************************************************************************)
(* C10 (amended).  The forward entry of a changes from absent to present   *)
(* only in a call by a; it changes from present to absent only in a call   *)
(* by a, or in a successful push by another account of a key whose reverse *)
(* entry is a (key takeover).                                              *)
(***************************************************************************)
C10_SoleAuthority ==
    [][\A a \in Accounts :
        /\ (~Present(a) /\ PresentNext(a)) => (PushOkStep /\ last'.sender = a)
        /\ (Present(a) /\ ~PresentNext(a)) =>
              \/ last'.sender = a
              \/ /\ PushOkStep
                 /\ pubkeyAddress[last'.args.pubkey] = a]_vars

\* an account that held a key of its own has just taken over the key of
\* another account, whose forward entry it thereby removed
C10_Witness ==
    /\ PushSucceeded
    /\ last.existingPubkey # ZeroKey
    /\ last.existingAddress \notin {ZeroAddress, last.sender}
    /\ ~Present(last.existingAddress)
    /\ Present(last.sender)

(***************************************************************************)
(* Two pushes are executed one after the other (the chain orders racing    *)
(* transactions; each runs to completion before the next starts).  They    *)
(* conflict when two accounts claim one key or one account claims two keys *)
(***************************************************************************)
ConflictingPushes ==
    /\ PushSucceeded
    /\ PushOkStep
    /\ \/ last.sender # last'.sender /\ last.args.pubkey = last'.args.pubkey
       \/ last.sender = last'.sender /\ last.args.pubkey # last'.args.pubkey

(***************************************************************************)
(* C11 (stated as claimed; it fails on the code).  Racing writers are      *)
(* serialised last-writer-wins: after two conflicting valid pushes run in  *)
(* either order, the link of the later push is stored on both sides and    *)
(* the link of the earlier push is removed on both sides.                  *)
(***************************************************************************)
C11_LastWriterWins ==
    [][ConflictingPushes =>
        /\ addressPubkey'[last'.sender] = last'.args.pubkey
        /\ pubkeyAddress'[last'.args.pubkey] = last'.sender
        /\ addressPubkey'[last.sender] # last.args.pubkey
        /\ pubkeyAddress'[last.args.pubkey] # last.sender]_vars

EventIdMismatch == "Event ID mismatch"
InvalidSignatureLength == "Invalid signature length"
SignatureMustBe64Bytes == "Signature must be 64 bytes"
InvalidKind == "Invalid kind for Nostr Linkr"
TimestampInFuture == "CreatedAt must be in the past"
TagsNotEmpty == "Tags must be empty for Nostr Linkr"

\* this step sends the prepared call to pushLinkr / passes it to verifyNostrEvent
SendPushStep == last.op = "none" /\ last'.op = "pushLinkr"
VerifyStep == last.op = "none" /\ last'.op = "verifyNostrEvent"

\* the step leaves both mappings as they were and logs nothing
RegistryUntouched ==
    /\ addressPubkey' = addressPubkey
    /\ pubkeyAddress' = pubkeyAddress
    /\ emitted' = <<>>

C13_WrongKindFailsFast_Original ==
    [][(SendPushStep /\ call.args.kind # LINKR_KIND) => last'.status = InvalidKind]_vars

(***************************************************************************)
(* C13 (amended).  Every push whose kind differs from 27235 and whose      *)
(* signature is 64 bytes long is rejected with "Invalid kind for Nostr     *)
(* Linkr", whatever its other fields and its signature bytes; a push of    *)
(* another signature length is rejected with "Invalid signature length"    *)
(* whatever its kind.  The registry is unchanged.                          *)
(***************************************************************************)
C13_WrongKindFailsFast ==
    [][(SendPushStep /\ call.args.kind # LINKR_KIND) =>
        /\ last'.status = IF Len(call.args.sig) = 64 THEN InvalidKind
                          ELSE InvalidSignatureLength
        /\ RegistryUntouched]_vars

\* a push of kind 1 whose 64-byte signature has r = 0 was rejected for its kind
C13_Witness ==
    /\ last.op = "pushLinkr"
    /\ last.status = InvalidKind
    /\ call.args.kind = 1
    /\ call.args.sig = ZeroKey \o ScalarOne

C15_Freshness_Original ==
    [][SendPushStep =>
        /\ FUTURE_TOLERANCE < 60 * 60
        /\ (last'.status = TimestampInFuture)
                <=> (call.args.createdAt > now + FUTURE_TOLERANCE)]_vars

(***************************************************************************)
(* C15 (amended).  A push with a 64-byte signature and kind 27235 is       *)
(* rejected with "CreatedAt must be in the past" exactly when created_at > *)
(* block.timestamp + 10000; created_at = block.timestamp + 10000 is not    *)
(* rejected for its timestamp, nor is created_at = 0.  No other push is    *)
(* rejected with that error.                                               *)
(***************************************************************************)
C15_Freshness ==
    [][SendPushStep =>
        /\ (last'.status = TimestampInFuture) <=>
                /\ Len(call.args.sig) = 64
                /\ call.args.kind = 27235
                /\ call.args.createdAt > now + 10000
        /\ last'.status = TimestampInFuture => RegistryUntouched]_vars

\* a push whose created_at is exactly block.timestamp + 10000 was accepted
C15_Witness ==
    /\ last.op = "pushLinkr"
    /\ last.status = Success
    /\ call.args.createdAt = now + 10000
    /\ addressPubkey[call.sender] = call.args.pubkey

\* s without the JSON whitespace characters (space, tab, line feed, carriage return)
RECURSIVE StripWhitespace(_)
StripWhitespace(s) ==
    IF s = <<>> THEN <<>>
    ELSE IF Head(s) \in {32, 9, 10, 13} THEN StripWhitespace(Tail(s))
    ELSE <<Head(s)>> \o StripWhitespace(Tail(s))

\* the tags text denotes the empty sequence: its canonical rendering is "[]"
CanonicalizesToEmpty(tags) == StripWhitespace(tags) = <<91, 93>>

(***************************************************************************)
(* C16 (original statement; it fails on the code).  Empty tags: a push is  *)
(* rejected with "Tags must be empty for Nostr Linkr" exactly when its     *)
(* tags do not canonicalize to the empty sequence.                         *)
(***************************************************************************)
C16_EmptyTags_Original ==
    [][SendPushStep =>
        ((last'.status = TagsNotEmpty) <=> ~CanonicalizesToEmpty(call.args.tags))]_vars

(***************************************************************************)
(* C16 (amended).  A push that passes the signature-length, kind and       *)
(* timestamp checks is rejected with "Tags must be empty for Nostr Linkr"  *)
(* exactly when its tags text is not the two characters "[]"; no other     *)
(* push is rejected with that error.  Every accepted push has tags "[]",   *)
(* and the string that was hashed into its id ends with [],"<content>"].   *)
(***************************************************************************)
C16_EmptyTags ==
    [][SendPushStep =>
        /\ (last'.status = TagsNotEmpty) <=>
                /\ Len(call.args.sig) = 64
                /\ call.args.kind = 27235
                /\ call.args.createdAt <= now + 10000
                /\ call.args.tags # <<91, 93>>
        /\ last'.status = TagsNotEmpty => RegistryUntouched
        /\ last'.status = Success =>
                LET str == call.args.id.sha256
                    n == Len(str) - Len(call.args.content)
                IN  /\ call.args.tags = <<91, 93>>
                    /\ n >= 6
                    /\ SubSeq(str, n - 5, Len(str)) =
                            <<91, 93, 44, 34>> \o call.args.content \o <<34, 93>>]_vars

\* a push whose tags text is "[ ]" was rejected for its tags
C16_Witness ==
    /\ last.op = "pushLinkr"
    /\ last.status = TagsNotEmpty
    /\ call.args.tags = <<91, 32, 93>>
    /\ CanonicalizesToEmpty(call.args.tags)

\* the two halves of the signature of the prepared call
SigR == SubSeq(call.args.sig, 1, 32)
SigS == SubSeq(call.args.sig, 33, 64)

(***************************************************************************)
(* C17.  Range check: verification rejects every 64-byte signature with    *)
(* r = 0, s = 0, r >= n or s >= n (n the secp256k1 group order; the values *)
(* 0, n and 2^256 - 1 are tried); with r and s among 1 and n - 1 the event *)
(* passes, so that verifyNostrEvent returns true when the id matches and   *)
(* pushLinkr accepts the linking event as the client built it.             *)
(***************************************************************************)
C17_RangeCheck ==
    [][Len(call.args.sig) = 64 =>
        /\ (VerifyStep /\ (SigR \in OutOfRangeScalars \/ SigS \in OutOfRangeScalars)) =>
                last'.status \in {"false", EventIdMismatch}
        /\ (VerifyStep /\ SigR \in InRangeScalars /\ SigS \in InRangeScalars) =>
                last'.status \in {"true", EventIdMismatch}
        /\ (SendPushStep /\ (SigR \in OutOfRangeScalars \/ SigS \in OutOfRangeScalars)) =>
                (last'.status # Success /\ RegistryUntouched)
        /\ (SendPushStep /\ SigR \in InRangeScalars /\ SigS \in InRangeScalars) =>
                /\ last'.status # InvalidSignature
                /\ (call.origin = "direct" /\ call.args.kind = 27235) =>
                        last'.status = Success]_vars

\* the linking event with r = n, s = 1 was rejected by pushLinkr for its
\* signature
C17_Witness ==
    /\ last.op = "pushLinkr"
    /\ last.status = InvalidSignature
    /\ SigR = curveOrder
    /\ SigS = ScalarOne

\* the number written by a string of decimal digits
RECURSIVE DecimalValue(_)
DecimalValue(d) ==
    IF d = <<>> THEN 0
    ELSE 10 * DecimalValue(SubSeq(d, 1, Len(d) - 1)) + (d[Len(d)] - 48)

\* d is the decimal numeral of n: digits only, no leading zero
IsDecimalOf(d, n) ==
    /\ Len(d) >= 1
    /\ \A k \in 1..Len(d) : d[k] \in 48..57
    /\ Len(d) > 1 => d[1] # 48
    /\ DecimalValue(d) = n

\* str is [0,"<pubkey-hex>",<created_at>,<kind>,<tags>,"<content>"] with
\* nothing between the parts
IsCanonicalSerialisation(str, a) ==
    LET digits == Len(str) - (4 + 64 + 2 + 1 + 1 + Len(a.tags) + 2 + Len(a.content) + 2)
    IN  \E i \in 1..(digits - 1) :
            LET j == digits - i
            IN  /\ SubSeq(str, 1, 4) = <<91, 48, 44, 34>>
                /\ IsLowerHexOf(SubSeq(str, 5, 68), a.pubkey)
                /\ SubSeq(str, 69, 70) = <<34, 44>>
                /\ IsDecimalOf(SubSeq(str, 71, 70 + i), a.createdAt)
                /\ str[71 + i] = 44
                /\ IsDecimalOf(SubSeq(str, 72 + i, 71 + i + j), a.kind)
                /\ str[72 + i + j] = 44
                /\ SubSeq(str, 73 + i + j, Len(str)) =
                        a.tags \o <<44, 34>> \o a.content \o <<34, 93>>

(***************************************************************************)
(* C18.  Canonical wire format: whenever verifyNostrEvent finds the id     *)
(* equal to the hash it computed, the string it hashed is exactly          *)
(* [0,"<pubkey-hex>",<created_at>,<kind>,<tags>,"<content>"], with the key *)
(* as 64 lowercase hex characters, both numbers as decimal numerals        *)
(* without leading zeros and no whitespace inserted; the same holds for    *)
(* every push that pushLinkr accepts.                                      *)
(***************************************************************************)
C18_CanonicalWireFormat ==
    [][((VerifyStep /\ last'.status \in {"true", "false"})
            \/ (SendPushStep /\ last'.status \in {Success, InvalidSignature})) =>
        IsCanonicalSerialisation(call.args.id.sha256, call.args)]_vars

\* verifyNostrEvent accepted an event with created_at = 0 and non-empty tags
\* under the hash of the string that ends with 0,1,[[]],"<content>"]
C18_Witness ==
    /\ last.op = "verifyNostrEvent"
    /\ last.status = "true"
    /\ call.args.createdAt = 0
    /\ call.args.kind = 1
    /\ call.args.tags = <<91, 91, 93, 93>>
    /\ call.args.pubkey = Key(1)
    /\ Len(call.args.content) = 40
    /\ SubSeq(call.args.id.sha256, 1, 6) = <<91, 48, 44, 34, 98, 49>>
    /\ SubSeq(call.args.id.sha256, 69, 81) = <<34, 44, 48, 44, 49, 44, 91, 91, 93, 93, 44, 34>> \o <<call.args.content[1]>>

(***************************************************************************)
(* C19.  Client and registry agree on the linking event: the arguments     *)
(* performLink builds for the connected account A and any key of the       *)
(* signing extension, sent from A, pass the kind, tags, content and event  *)
(* id checks of pushLinkr; with a signature in range the push is accepted  *)
(* and links A to the key.                                                 *)
(***************************************************************************)
C19_ClientAndRegistryAgree ==
    [][(SendPushStep /\ call.origin = "performLink") =>
        /\ last'.status \notin {InvalidKind, TagsNotEmpty, ContentMismatch, EventIdMismatch}
        /\ last'.status = Success
        /\ addressPubkey'[call.sender] = call.args.pubkey]_vars

\* the call performLink built for the second account and the second key was
\* accepted by pushLinkr
C19_Witness ==
    /\ call.origin = "performLink"
    /\ call.sender = Account(2)
    /\ call.args.pubkey = Key(2)
    /\ last.op = "pushLinkr"
    /\ last.status = Success
    /\ addressPubkey[Account(2)] = Key(2)
    /\ pubkeyAddress[Key(2)] = Account(2)

(***************************************************************************)
(* C20.  Notifications: every successful push logs exactly one             *)
(* LinkrPushed(caller, new key) and every successful pull exactly one      *)
(* LinkrPulled(caller, removed key); the mappings of the state in which    *)
(* the event is logged are the updated ones.  A failed push or pull logs   *)
(* nothing.                                                                *)
(***************************************************************************)
C20_Notifications ==
    [][/\ PushOkStep =>
            /\ emitted' = <<[event |-> "LinkrPushed", addr |-> last'.sender,
                             pubkey |-> last'.args.pubkey]>>
            /\ addressPubkey'[last'.sender] = last'.args.pubkey
            /\ pubkeyAddress'[last'.args.pubkey] = last'.sender
       /\ PullOkStep =>
            /\ emitted' = <<[event |-> "LinkrPulled", addr |-> last'.sender,
                             pubkey |-> addressPubkey[last'.sender]]>>
            /\ addressPubkey[last'.sender] # ZeroKey
            /\ addressPubkey'[last'.sender] = ZeroKey
            /\ pubkeyAddress'[addressPubkey[last'.sender]] = ZeroAddress
       /\ (PushFailStep \/ (PullStep /\ ~PullOkStep)) => emitted' = <<>>]_vars

\* a pull has logged LinkrPulled with the caller and the first key, and both
\* entries of that link are cleared
C20_Witness ==
    /\ PullSucceeded
    /\ emitted = <<[event |-> "LinkrPulled", addr |-> last.sender, pubkey |-> Key(1)]>>
    /\ addressPubkey[last.sender] = ZeroKey
    /\ pubkeyAddress[Key(1)] = ZeroAddress

(***************************************************************************)
(* ECDSA-authorised writes                                                 *)
(***************************************************************************)
EcdsaWriteOps == {"linkNostr", "linkNostrAttested", "pushLinkr"}

\* the reverts of the recovery itself, before any comparison
RecoveryErrors ==
    {"Invalid signature length", "ECDSAInvalidSignature", "ECDSAInvalidSignatureLength"}

EcdsaStorageUnchanged ==
    /\ ecdsa'.nostrLinks = ecdsa.nostrLinks
    /\ ecdsa'.addressPubkey = ecdsa.addressPubkey
    /\ ecdsa'.pubkeyAddress = ecdsa.pubkeyAddress

\* the address the recovered one is compared with
Authorizer ==
    CASE ecdsa'.last.op = "linkNostr" -> ecdsa'.last.sender
      [] ecdsa'.last.op = "linkNostrAttested" -> ecdsa.trustedSigner
      [] ecdsa'.last.op = "pushLinkr" -> ecdsa'.last.signer

InvalidSignatureError ==
    IF ecdsa'.last.op = "linkNostrAttested" THEN "Invalid server signature"
    ELSE "Invalid signature"

\* C21: in linkNostr, linkNostrAttested and the owner-attested pushLinkr the
\* mapping is written and the notification emitted only when the address
\* recovered from the message hash and the signature equals the required
\* authorizer (the caller, trustedSigner, the declared signer who must be the
\* owner); when the recovered address differs the call aborts with the
\* invalid-signature error, and when the recovery itself reverts it aborts
\* too, both without any change of state or notification.
C21_EcdsaAuthorisedWrites ==
    [][ecdsa'.last.op \in EcdsaWriteOps =>
        LET l == ecdsa'.last
            recoveredOne == l.status \notin RecoveryErrors
        IN  /\ (~EcdsaStorageUnchanged \/ ecdsa'.emitted # <<>>) =>
                    /\ l.status = Success
                    /\ recoveredOne
                    /\ l.recovered = Authorizer
                    /\ l.op = "pushLinkr" => l.signer = ecdsa.owner
            /\ (recoveredOne /\ l.recovered # Authorizer) =>
                    /\ l.status = InvalidSignatureError
                    /\ EcdsaStorageUnchanged
                    /\ ecdsa'.emitted = <<>>
            /\ ~recoveredOne => EcdsaStorageUnchanged /\ ecdsa'.emitted = <<>>]_vars

\* linkNostr has stored the key of a caller whose own signature was recovered
C21_Witness ==
    /\ ecdsa.last.op = "linkNostr"
    /\ ecdsa.last.status = Success
    /\ ecdsa.last.recovered = ecdsa.last.sender
    /\ ecdsa.nostrLinks[ecdsa.last.sender] = ecdsa.last.key
    /\ ecdsa.emitted = <<LinkCreated(ecdsa.last.sender, ecdsa.last.key)>>

\* the link (a, p) is stored on the side of a / on the side of p and the step keeps it
LinkKept(a, p) ==
    /\ addressPubkey[a] = p => addressPubkey'[a] = p
    /\ pubkeyAddress[p] = a => pubkeyAddress'[p] = a

(***************************************************************************)
(* C22 (stated as claimed; it fails on the code).  Frame of a write: a     *)
(* successful push by account b for key q, and a successful pull by b      *)
(* (q being the key b was linked to), leave every other link (a, p) with   *)
(* a # b and p # q exactly as it was in both mappings.                     *)
(***************************************************************************)
C22_FrameOfAWrite ==
    [][/\ PushOkStep =>
            \A a \in Accounts \ {last'.sender} :
            \A p \in PubKeys \ {last'.args.pubkey, ZeroKey} : LinkKept(a, p)
       /\ PullOkStep =>
            \A a \in Accounts \ {last'.sender} :
            \A p \in PubKeys \ {addressPubkey[last'.sender], ZeroKey} : LinkKept(a, p)]_vars

\* the prepared call is passed to the registry that takes an address
Hardhat_VerifyStep == last.op = "none" /\ last'.op = "Hardhat_verifyNostrEvent"
Hardhat_SendPushStep == last.op = "none" /\ last'.op = "Hardhat_pushLinkr"

(***************************************************************************)
(* C23 (stated as claimed; it fails on the code).  getEventHash returns    *)
(* the event id that verifyNostrEvent and pushLinkr accept for the same    *)
(* fields with the content being the account's address as pushLinkr        *)
(* requires it: the two functions hash the same serialization.             *)
(***************************************************************************)
C23_GetEventHashAgrees ==
    [][call.origin = "getEventHash" =>
        /\ VerifyStep => last'.status = "true"
        /\ SendPushStep => last'.status # EventIdMismatch]_vars

(***************************************************************************)
(* C24 (stated as claimed; it fails on the code).  The registry that takes *)
(* the content as an address hashes the canonical string of the wire       *)
(* format, the key as 64 and the content as 40 lowercase hex characters    *)
(* without prefix, so that the id a NIP-01 client computes over the        *)
(* content written as the lowercase address without 0x is accepted.        *)
(***************************************************************************)
C24_HardhatCanonicalString ==
    [][call.origin = "nostr-tools" =>
        /\ Hardhat_VerifyStep => last'.status = "true"
        /\ Hardhat_SendPushStep => last'.status # EventIdMismatch]_vars

(***************************************************************************)
(* C25 (stated as claimed; it fails on the code).  verifyNostrEvent        *)
(* reports an invalid event (a signature of the wrong length, an id that   *)
(* does not match the fields, r or s out of range) by returning false; it  *)
(* never aborts.                                                           *)
(***************************************************************************)
C25_VerifierReturnsFalse ==
    [][VerifyStep => last'.status \in {"true", "false"}]_vars

\* the sender of the kept event submits it again in this step
ResubmitStep == call.origin = "accepted" /\ call'.origin = "resubmitted"

(***************************************************************************)
(* C26.  Replay: a linking event that was accepted once for account A is   *)
(* accepted again whenever A submits it again later (after a pull, a       *)
(* re-link, a takeover of the key, at a later block time), and the         *)
(* registry then maps A to the key of that event again, on both sides.     *)
(***************************************************************************)
C26_Replay ==
    [][ResubmitStep =>
        /\ last'.op = "pushLinkr"
        /\ last'.status = Success
        /\ addressPubkey'[call.sender] = call.args.pubkey
        /\ pubkeyAddress'[call.args.pubkey] = call.sender]_vars

\* the kept event was submitted again at a later block time, when its sender
\* was linked to another key, and the registry maps the sender to its key again
C26_Witness ==
    /\ call.origin = "resubmitted"
    /\ PushSucceeded
    /\ now > GenesisTime
    /\ last.existingPubkey \notin {ZeroKey, call.args.pubkey}
    /\ addressPubkey[call.sender] = call.args.pubkey

\* the forward mapping an indexer holds after one more notification
ApplyNotification(forward, e) ==
    IF e.event = "LinkrPushed" THEN [forward EXCEPT ![e.addr] = e.pubkey]
    ELSE [forward EXCEPT ![e.addr] = ZeroKey]

\* ... and after the notifications of a transaction, in their order
RECURSIVE ReplayLog(_, _)
ReplayLog(forward, log) ==
    IF log = <<>> THEN forward
    ELSE ReplayLog(ApplyNotification(forward, Head(log)), Tail(log))

(***************************************************************************)
(* C27 (stated as claimed; it fails on the code).  The notification log    *)
(* determines the registry: the forward mapping is the one obtained by     *)
(* replaying the emitted notifications in order (LinkrPushed(a, p) sets a  *)
(* to p, LinkrPulled(a, p) deletes a), transaction by transaction; every   *)
(* removal of an entry, the removal of another account's link by a push    *)
(* that claims its key included, is announced by LinkrPulled for the pair. *)
(***************************************************************************)
C27_LogDeterminesRegistry ==
    [][now' = now =>
        /\ addressPubkey' = ReplayLog(addressPubkey, emitted')
        /\ \A a \in Accounts :
            (addressPubkey[a] # ZeroKey /\ addressPubkey'[a] = ZeroKey) =>
                \E k \in 1..Len(emitted') : emitted'[k] = LinkrPulled(a, addressPubkey[a])]_vars

\* the owner-attested pushLinkr is called in this step
Owner_PushStep == ecdsa'.last.op = "pushLinkr" /\ ecdsa' # ecdsa

\* the account or the key the message attests is already linked
Owner_Conflict ==
    \/ ecdsa.addressPubkey[ecdsa'.last.ethAddress] # ZeroKey
    \/ ecdsa.pubkeyAddress[ecdsa'.last.key] # ZeroAddress

\* the message was signed by its declared signer, the owner, and names a
\* non-zero account and a key
Owner_Attested ==
    /\ ecdsa'.last.status \notin RecoveryErrors
    /\ ecdsa'.last.recovered = ecdsa'.last.signer
    /\ ecdsa'.last.signer = ecdsa.owner
    /\ ecdsa'.last.ethAddress # ZeroAddress

(***************************************************************************)
(* C28.  Explicit-conflict policy of the owner-attested variant: pushLinkr *)
(* never overwrites.  When the attested account already has a key or the   *)
(* attested key already has an account, the call aborts with "Linkr        *)
(* already exists", both mappings stay unchanged and nothing is logged; a  *)
(* push that succeeds writes the pair into two previously empty slots and  *)
(* changes no other slot.                                                  *)
(***************************************************************************)
C28_NoOverwrite ==
    [][Owner_PushStep =>
        LET l == ecdsa'.last
        IN  /\ (Owner_Attested /\ Owner_Conflict) =>
                    /\ l.status = "Linkr already exists"
                    /\ EcdsaStorageUnchanged
                    /\ ecdsa'.emitted = <<>>
            /\ l.status = Success =>
                    /\ ecdsa.addressPubkey[l.ethAddress] = ZeroKey
                    /\ ecdsa.pubkeyAddress[l.key] = ZeroAddress
                    /\ ecdsa'.addressPubkey = [ecdsa.addressPubkey EXCEPT ![l.ethAddress] = l.key]
                    /\ ecdsa'.pubkeyAddress = [ecdsa.pubkeyAddress EXCEPT ![l.key] = l.ethAddress]
            /\ \A a \in Accounts :
                    ecdsa.addressPubkey[a] # ZeroKey =>
                        ecdsa'.addressPubkey[a] = ecdsa.addressPubkey[a]
            /\ \A p \in PubKeys :
                    ecdsa.pubkeyAddress[p] # ZeroAddress =>
                        ecdsa'.pubkeyAddress[p] = ecdsa.pubkeyAddress[p]]_vars

\* an attested push for a linked account was rejected: the link is as before
C28_Witness ==
    /\ ecdsa.last.op = "pushLinkr"
    /\ ecdsa.last.status = "Linkr already exists"
    /\ ecdsa.last.recovered = ecdsa.owner
    /\ ecdsa.addressPubkey[ecdsa.last.ethAddress] \notin {ZeroKey, ecdsa.last.key}
    /\ ecdsa.emitted = <<>>

\* every character of the text is a hex digit
IsHexText(text) ==
    \A k \in 1..Len(text) : text[k] \in (48..57) \cup (97..102) \cup (65..70)

\* what the flow guarantees about the invocation it is in or has ended,
\* apart from the signature
LinkFlowFrame ==
    /\ ui.submissions <= 1
    /\ ui.submissions = 1 => ui.extension /\ ui.pubkey # <<>>
    /\ ui.pc = "ended" => ~ui.loading
    /\ ui.response # NoResponse => ui.pushLinkr = "resolved"

(***************************************************************************)
(* C29 as claimed (it fails on the code).  One invocation of performLink   *)
(* submits pushLinkr at most once, and only after the signing extension    *)
(* was found, the public key obtained and a signature of exactly 128 hex   *)
(* characters returned; on every path the loading flag is false when the   *)
(* invocation ends, and the success response is stored only if the         *)
(* pushLinkr call resolved.                                                *)
(***************************************************************************)
C29_LinkFlow_Original ==
    /\ LinkFlowFrame
    /\ ui.submissions = 1 =>
            /\ ui.signedEvent.hasSig
            /\ Len(ui.signedEvent.sig) = 128
            /\ IsHexText(ui.signedEvent.sig)

(***************************************************************************)
(* C29, amended.  The same, with a signature of exactly 128 characters:    *)
(* only the length of the signature text is tested, not its characters.    *)
(***************************************************************************)
C29_LinkFlow ==
    /\ LinkFlowFrame
    /\ ui.submissions = 1 =>
            /\ ui.signedEvent.hasSig
            /\ Len(ui.signedEvent.sig) = 128

\* an invocation has ended after its pushLinkr resolved: the response is
\* stored and the loading flag is false
C29_Witness ==
    /\ ui.pc = "ended"
    /\ ui.submissions = 1
    /\ ui.pushLinkr = "resolved"
    /\ ui.response # NoResponse
    /\ ~ui.loading

\* a reconnect is scheduled / a reconnect attempt is made / the socket opens
\* in this step
ReconnectScheduledStep == ~relay.reconnectTimeout /\ relay'.reconnectTimeout
ReconnectAttemptStep == relay.reconnectTimeout /\ relay'.socket = "connecting"
SocketOpenStep == relay.socket = "connecting" /\ relay'.socket = "open"

Persisted(pubkey) == feed.storage.present /\ pubkey \in Elements(feed.storage.list)

(***************************************************************************)
(* C31.  Follow-state consistency in the main feed: after any sequence of  *)
(* loading the saved following list, receiving profile-metadata events     *)
(* and toggleFollow calls, every entry of authors has isFollowed = true    *)
(* exactly when its public key is in the followed set saved under          *)
(* "nostr-following".                                                      *)
(***************************************************************************)
C31_FollowStateConsistent ==
    \A i \in 1..Len(feed.authors) :
        feed.authors[i].isFollowed <=> Persisted(feed.authors[i].pubkey)

(***************************************************************************)
(* C32.  uint2str renders decimal numerals: for every unsigned integer n   *)
(* the loops terminate and the call returns "0" for n = 0 and otherwise    *)
(* the decimal digits of n, most significant first and without a leading   *)
(* zero, so that reading the result as a decimal number gives n and no     *)
(* other number has the same string.                                       *)
(***************************************************************************)
C32_Uint2strDecimal ==
    /\ [](conv.pc = "returned" =>
            /\ conv.n = 0 => conv.result = <<48>>
            /\ IsDecimalOf(conv.result, conv.n)
            /\ conv.result = uint2str(conv.n)
            /\ \A m \in Uints : uint2str(m) = conv.result => m = conv.n)
    /\ <>(conv.pc = "returned")

\* the largest argument has been rendered with its ten digits
C32_Witness ==
    /\ conv.pc = "returned"
    /\ conv.n = 2147483647
    /\ Len(conv.result) = 10
    /\ conv.k = 0

====
